---------------------------- MODULE Spec2Model ----------------------------
(***************************************************************************)
(* Model of the template inheritance and merging engine of extn            *)
(* (src/src/core/template/engine.ts): TemplateEngine.renderFile, render,   *)
(* renderWithInheritance, mergePackageJson and mergePartialFiles, and      *)
(* TemplateRegistry.loadTemplates, get, has and getWithBase.               *)
(*                                                                         *)
(* Strings are sequences of one-character strings, so that includes,       *)
(* replace, the two regular expressions of renderFile, JSON.parse and      *)
(* JSON.stringify are computed character by character as the code does.    *)
(***************************************************************************)
EXTENDS Integers, Sequences, FiniteSets, TLC

(***************************************************************************)
(* Bounds of the model.                                                    *)
(***************************************************************************)
\* largest number of files in the base tree on disk
MaxBaseTree == 2
\* largest number of files in the template tree on disk
MaxTemplateTree == 2
\* longest list handed to mergePartialFiles, on either side
MaxList == 2
\* largest number of pieces a content handed to renderFile is made of
MaxPieces == 3

(***************************************************************************)
(* Strings.                                                                *)
(***************************************************************************)
Min(S) == CHOOSE x \in S : \A y \in S : x <= y

\* s.startsWith(t, i - 1) with 1-based i
StartsWithAt(s, i, t) ==
    /\ i >= 1
    /\ i + Len(t) - 1 <= Len(s)
    /\ \A k \in 1..Len(t) : s[i + k - 1] = t[k]

\* s.indexOf(t, from - 1) + 1 with 1-based positions; 0 when t does not occur
IndexOf(s, t, from) ==
    LET found == {k \in from..(Len(s) - Len(t) + 1) : StartsWithAt(s, k, t)}
    IN  IF found = {} THEN 0 ELSE Min(found)

\* String.prototype.includes
includes(s, t) == IndexOf(s, t, 1) # 0

\* The replacement patterns that String.prototype.replace expands in a
\* replacement given as a string: $$ (a dollar), $& (the matched text m)
\* and $' (the text after the match).  The fourth pattern, dollar-backquote,
\* cannot occur: the model's alphabet has no backquote.  With a string
\* pattern there are no groups, and $1 stays as written.
RECURSIVE GetSubstitution(_, _, _, _)
GetSubstitution(r, i, m, post) ==
    IF i > Len(r) THEN <<>>
    ELSE IF r[i] = "$" /\ i < Len(r) /\ r[i + 1] \in {"$", "&", "'"}
         THEN (CASE r[i + 1] = "$" -> <<"$">>
                 [] r[i + 1] = "&" -> m
                 [] r[i + 1] = "'" -> post)
              \o GetSubstitution(r, i + 2, m, post)
         ELSE <<r[i]>> \o GetSubstitution(r, i + 1, m, post)

\* String.prototype.replace(pattern, replacement) with a string pattern:
\* only the first occurrence is replaced
replace(s, pattern, replacement) ==
    LET i == IndexOf(s, pattern, 1)
    IN  IF i = 0 THEN s
        ELSE LET pre  == SubSeq(s, 1, i - 1)
                 post == SubSeq(s, i + Len(pattern), Len(s))
             IN  pre \o GetSubstitution(replacement, 1, pattern, post) \o post

Lower == {"a", "b", "c", "d", "e", "f", "g", "h", "i", "j", "k", "l", "m",
          "n", "o", "p", "q", "r", "s", "t", "u", "v", "w", "x", "y", "z"}
Upper == {"A", "B", "C", "D", "E", "F", "G", "H", "I", "J", "K", "L", "M",
          "N", "O", "P", "Q", "R", "S", "T", "U", "V", "W", "X", "Y", "Z"}
Digit == {"0", "1", "2", "3", "4", "5", "6", "7", "8", "9"}
\* the regular expression class \w
WordChar == Lower \cup Upper \cup Digit \cup {"_"}
\* the regular expression class \s, as far as the model's alphabet goes
SpaceChar == {" ", "\n", "\t", "\r"}

\* the end of the longest run of characters of class C that starts at i
\* (i - 1 when s[i] is not in C)
RECURSIVE RunEnd(_, _, _)
RunEnd(s, i, C) ==
    IF i <= Len(s) /\ s[i] \in C THEN RunEnd(s, i + 1, C) ELSE i - 1

(***************************************************************************)
(* renderFile: conditionals, then variable substitution.                   *)
(***************************************************************************)
\* context[variable]: an own property of the context (a key absent or set
\* to undefined is modelled by the absence of the key), else what the
\* context object inherits from Object.prototype, else undefined.  An
\* inherited value is given as the string the replace callback's return
\* value is turned into.
Undefined == <<"undefined">>

kConstructor ==
    <<"c", "o", "n", "s", "t", "r", "u", "c", "t", "o", "r">>
kProto ==
    <<"_", "_", "p", "r", "o", "t", "o", "_", "_">>
\* the methods of Object.prototype
ObjectPrototypeMethods ==
    { <<"t", "o", "S", "t", "r", "i", "n", "g">>,
      <<"v", "a", "l", "u", "e", "O", "f">>,
      <<"h", "a", "s", "O", "w", "n", "P", "r", "o", "p", "e", "r", "t", "y">>,
      <<"i", "s", "P", "r", "o", "t", "o", "t", "y", "p", "e", "O", "f">>,
      <<"p", "r", "o", "p", "e", "r", "t", "y", "I", "s", "E", "n", "u",
        "m", "e", "r", "a", "b", "l", "e">>,
      <<"_", "_", "d", "e", "f", "i", "n", "e", "G", "e", "t", "t", "e", "r", "_", "_">>,
      <<"_", "_", "d", "e", "f", "i", "n", "e", "S", "e", "t", "t", "e", "r", "_", "_">>,
      <<"_", "_", "l", "o", "o", "k", "u", "p", "G", "e", "t", "t", "e", "r", "_", "_">>,
      <<"_", "_", "l", "o", "o", "k", "u", "p", "S", "e", "t", "t", "e", "r", "_", "_">>,
      <<"t", "o", "L", "o", "c", "a", "l", "e", "S", "t", "r", "i", "n", "g">> }

\* String(Object.prototype[name]) for a method: function name() { [native code] }
FunctionText(name) ==
    <<"f", "u", "n", "c", "t", "i", "o", "n", " ">>
    \o name \o
    <<"(", ")", " ", "{", " ", "[", "n", "a", "t", "i", "v", "e",
      " ", "c", "o", "d", "e", "]", " ", "}">>

\* String(context[variable]) for a variable the context inherits
Inherited(variable) ==
    IF variable = kConstructor THEN FunctionText(<<"O", "b", "j", "e", "c", "t">>)
    ELSE IF variable = kProto
    THEN
        <<"[", "o", "b", "j", "e", "c", "t", " ", "O", "b", "j", "e",
          "c", "t", "]">>
    ELSE FunctionText(variable)

ctxGet(context, variable) ==
    IF variable \in DOMAIN context THEN context[variable]
    ELSE IF variable \in ObjectPrototypeMethods \cup {kConstructor, kProto}
    THEN Inherited(variable)
    ELSE Undefined

OpenIf == <<"{", "{", "#", "i", "f">>
CloseIf == <<"{", "{", "/", "i", "f", "}", "}">>
OpenVar == <<"{", "{">>
CloseVar == <<"}", "}">>

\* A match of /\{\{#if\s+(\w+)\}\}([\s\S]*?)\{\{\/if\}\}/ that starts at i:
\* [ok, variable, block, end]
conditionalRegex(s, i) ==
    LET none == [ok |-> FALSE, variable |-> <<>>, block |-> <<>>, end |-> 0]
    IN  IF ~StartsWithAt(s, i, OpenIf) THEN none
        ELSE LET sEnd == RunEnd(s, i + 5, SpaceChar)
                 wEnd == RunEnd(s, sEnd + 1, WordChar)
             IN  IF sEnd < i + 5 \/ wEnd < sEnd + 1
                    \/ ~StartsWithAt(s, wEnd + 1, CloseVar)
                 THEN none
                 ELSE LET c == IndexOf(s, CloseIf, wEnd + 3)
                      IN  IF c = 0 THEN none
                          ELSE [ok |-> TRUE,
                                variable |-> SubSeq(s, sEnd + 1, wEnd),
                                block |-> SubSeq(s, wEnd + 3, c - 1),
                                end |-> c + 6]

\* the replace with the g flag, from position i on: the leftmost match is
\* replaced, and the search goes on after it
RECURSIVE processConditionalsFrom(_, _, _)
processConditionalsFrom(s, i, context) ==
    LET starts == {j \in i..Len(s) : conditionalRegex(s, j).ok}
    IN  IF starts = {} THEN SubSeq(s, i, Len(s))
        ELSE LET m == conditionalRegex(s, Min(starts))
                 value == ctxGet(context, m.variable)
             IN  SubSeq(s, i, Min(starts) - 1)
                 \o (IF value # Undefined /\ value # <<>> THEN m.block ELSE <<>>)
                 \o processConditionalsFrom(s, m.end + 1, context)

processConditionals(content, context) == processConditionalsFrom(content, 1, context)

\* A match of /\{\{(\w+)\}\}/ that starts at i: the position of its last
\* character, 0 when there is none
variableRegex(s, i) ==
    IF ~StartsWithAt(s, i, OpenVar) THEN 0
    ELSE LET wEnd == RunEnd(s, i + 2, WordChar)
         IN  IF wEnd >= i + 2 /\ StartsWithAt(s, wEnd + 1, CloseVar)
             THEN wEnd + 2 ELSE 0

RECURSIVE processVariablesFrom(_, _, _)
processVariablesFrom(s, i, context) ==
    LET starts == {j \in i..Len(s) : variableRegex(s, j) # 0}
    IN  IF starts = {} THEN SubSeq(s, i, Len(s))
        ELSE LET j == Min(starts)
                 e == variableRegex(s, j)
                 value == ctxGet(context, SubSeq(s, j + 2, e - 2))
             IN  SubSeq(s, i, j - 1)
                 \o (IF value # Undefined THEN value ELSE SubSeq(s, j, e))
                 \o processVariablesFrom(s, e + 1, context)

processVariables(content, context) == processVariablesFrom(content, 1, context)

renderFile(content, context) ==
    processVariables(processConditionals(content, context), context)

(***************************************************************************)
(* JSON values: [t, v] with t one of "str" (v the characters), "null",     *)
(* "obj" (v the sequence of entries [k, v] in property order), and         *)
(* "undefined" for an absent property.  The texts the model parses hold    *)
(* objects, strings and null; numbers, arrays and booleans do not occur.   *)
(***************************************************************************)
JNull == [t |-> "null", v |-> <<>>]
JUndefined == [t |-> "undefined", v |-> <<>>]
JStr(chars) == [t |-> "str", v |-> chars]
JObj(entries) == [t |-> "obj", v |-> entries]
\* the SyntaxError of JSON.parse and the TypeError of a property read on null
SyntaxError == [t |-> "SyntaxError", v |-> <<>>]
TypeError == [t |-> "TypeError", v |-> <<>>]

Keys(entries) == {entries[i].k : i \in 1..Len(entries)}

\* obj[key] = value on an ordinary object: an existing key keeps its place
Put(entries, key, value) ==
    IF key \in Keys(entries)
    THEN [i \in 1..Len(entries) |->
            IF entries[i].k = key THEN [k |-> key, v |-> value] ELSE entries[i]]
    ELSE Append(entries, [k |-> key, v |-> value])

RECURSIVE PutAll(_, _, _)
PutAll(entries, more, i) ==
    IF i > Len(more) THEN entries
    ELSE PutAll(Put(entries, more[i].k, more[i].v), more, i + 1)

\* obj[key] for a value that is not null
Get(value, key) ==
    IF value.t = "obj" /\ key \in Keys(value.v)
    THEN (CHOOSE e \in {value.v[i] : i \in 1..Len(value.v)} : e.k = key).v
    ELSE JUndefined

RECURSIVE NatToString(_)
NatToString(n) ==
    LET d == <<"0", "1", "2", "3", "4", "5", "6", "7", "8", "9">>
    IN  IF n < 10 THEN <<d[n + 1]>> ELSE NatToString(n \div 10) \o <<d[(n % 10) + 1]>>

\* the own enumerable properties that {...value} copies: those of an object,
\* the indexed characters of a string, none of null or undefined
OwnEntries(value) ==
    CASE value.t = "obj" -> value.v
      [] value.t = "str" ->
            [i \in 1..Len(value.v) |->
                [k |-> NatToString(i - 1), v |-> JStr(<<value.v[i]>>)]]
      [] OTHER -> <<>>

\* {...a, ...b}
Spread(a, b) == PutAll(PutAll(<<>>, OwnEntries(a), 1), OwnEntries(b), 1)

\* value || {}: undefined, null and the empty string are falsy
OrEmpty(value) ==
    IF value.t \in {"undefined", "null"} \/ (value.t = "str" /\ value.v = <<>>) THEN JObj(<<>>) ELSE value

JsonWs == {" ", "\n", "\t", "\r"}
SkipWs(s, i) == RunEnd(s, i, JsonWs) + 1

\* the characters of a string literal whose opening quote is at i - 1:
\* [ok, v, next]
RECURSIVE ParseChars(_, _, _)
ParseChars(s, i, acc) ==
    IF i > Len(s) \/ s[i] \in {"\n", "\t", "\r"} THEN [ok |-> FALSE, v |-> <<>>, next |-> 0]
    ELSE IF s[i] = "\"" THEN [ok |-> TRUE, v |-> acc, next |-> i + 1]
    ELSE IF s[i] = "\\"
         THEN IF i < Len(s) /\ s[i + 1] \in {"\"", "\\", "/", "n", "t", "r"}
              THEN ParseChars(s, i + 2,
                      Append(acc, CASE s[i + 1] = "n" -> "\n"
                                    [] s[i + 1] = "t" -> "\t"
                                    [] s[i + 1] = "r" -> "\r"
                                    [] OTHER -> s[i + 1]))
              ELSE [ok |-> FALSE, v |-> <<>>, next |-> 0]
    ELSE ParseChars(s, i + 1, Append(acc, s[i]))

RECURSIVE ParseValue(_, _)
RECURSIVE ParseMembers(_, _, _)
\* the members of an object from position i, the opening brace or a comma
\* being just behind: [ok, v, next]
ParseMembers(s, i, acc) ==
    LET fail == [ok |-> FALSE, v |-> JUndefined, next |-> 0]
        j == SkipWs(s, i)
    IN  IF j > Len(s) \/ s[j] # "\"" THEN fail
        ELSE LET key == ParseChars(s, j + 1, <<>>)
             IN  IF ~key.ok THEN fail
                 ELSE LET c == SkipWs(s, key.next)
                      IN  IF c > Len(s) \/ s[c] # ":" THEN fail
                          ELSE LET val == ParseValue(s, c + 1)
                               IN  IF ~val.ok THEN fail
                                   ELSE LET e == SkipWs(s, val.next)
                                            acc2 == Put(acc, key.v, val.v)
                                        IN  IF e > Len(s) THEN fail
                                            ELSE IF s[e] = "}"
                                                 THEN [ok |-> TRUE, v |-> JObj(acc2), next |-> e + 1]
                                            ELSE IF s[e] = ","
                                                 THEN ParseMembers(s, e + 1, acc2)
                                            ELSE fail

ParseValue(s, i) ==
    LET fail == [ok |-> FALSE, v |-> JUndefined, next |-> 0]
        j == SkipWs(s, i)
    IN  IF j > Len(s) THEN fail
        ELSE IF s[j] = "\""
             THEN LET r == ParseChars(s, j + 1, <<>>)
                  IN  IF r.ok THEN [ok |-> TRUE, v |-> JStr(r.v), next |-> r.next] ELSE fail
        ELSE IF StartsWithAt(s, j, <<"n", "u", "l", "l">>)
             THEN [ok |-> TRUE, v |-> JNull, next |-> j + 4]
        ELSE IF s[j] = "{"
             THEN LET k == SkipWs(s, j + 1)
                  IN  IF k <= Len(s) /\ s[k] = "}"
                      THEN [ok |-> TRUE, v |-> JObj(<<>>), next |-> k + 1]
                      ELSE ParseMembers(s, j + 1, <<>>)
        ELSE fail

\* JSON.parse(text): the value, or SyntaxError
JSONparse(text) ==
    LET r == ParseValue(text, 1)
    IN  IF r.ok /\ SkipWs(text, r.next) > Len(text) THEN r.v ELSE SyntaxError

RECURSIVE Quote(_, _)
Quote(chars, i) ==
    IF i > Len(chars) THEN <<>>
    ELSE (CASE chars[i] = "\"" -> <<"\\", "\"">>
            [] chars[i] = "\\" -> <<"\\", "\\">>
            [] chars[i] = "\n" -> <<"\\", "n">>
            [] chars[i] = "\t" -> <<"\\", "t">>
            [] chars[i] = "\r" -> <<"\\", "r">>
            [] OTHER -> <<chars[i]>>) \o Quote(chars, i + 1)

QuoteString(chars) == <<"\"">> \o Quote(chars, 1) \o <<"\"">>

Spaces(n) == [i \in 1..n |-> " "]

\* JSON.stringify(value, null, 2) at the given indentation
RECURSIVE Stringify(_, _)
RECURSIVE StringifyMembers(_, _, _)
StringifyMembers(entries, i, indent) ==
    IF i > Len(entries) THEN <<>>
    ELSE Spaces(indent) \o QuoteString(entries[i].k) \o <<":", " ">>
         \o Stringify(entries[i].v, indent)
         \o (IF i < Len(entries) THEN <<",", "\n">> ELSE <<"\n">>)
         \o StringifyMembers(entries, i + 1, indent)

Stringify(value, indent) ==
    CASE value.t = "str" -> QuoteString(value.v)
      [] value.t = "null" -> <<"n", "u", "l", "l">>
      [] value.t = "obj" ->
            IF value.v = <<>> THEN <<"{", "}">>
            ELSE <<"{", "\n">> \o StringifyMembers(value.v, 1, indent + 2)
                 \o Spaces(indent) \o <<"}">>

JSONstringify(value) == Stringify(value, 0)

(***************************************************************************)
(* mergePackageJson and mergeDependencies.                                 *)
(***************************************************************************)
kScripts == <<"s", "c", "r", "i", "p", "t", "s">>
kDependencies == <<"d", "e", "p", "e", "n", "d", "e", "n", "c", "i", "e", "s">>
kDevDependencies == <<"d", "e", "v", "D">> \o SubSeq(kDependencies, 2, 12)

\* mergeDependencies giving an empty map when the template has no entry
mergeDependenciesOfTemplate(base, template) ==
    IF template.v = <<>> THEN JObj(<<>>) ELSE JObj(Spread(base, template))

mergeDependencies(base, template) == JObj(Spread(base, template))

\* mergePackageJson with the three maps left to the shallow merge
mergePackageJsonShallow(basePackage, templatePackage) ==
    IF basePackage.t = "null" \/ templatePackage.t = "null" THEN TypeError
    ELSE JObj(Spread(basePackage, templatePackage))

\* Reading .scripts of null throws a TypeError; every other value has the
\* (possibly undefined) properties read here.
mergePackageJson(basePackage, templatePackage) ==
    IF basePackage.t = "null" \/ templatePackage.t = "null" THEN TypeError
    ELSE JObj(
           Put(Put(Put(Spread(basePackage, templatePackage),
             kScripts,
                JObj(Spread(OrEmpty(Get(basePackage, kScripts)),
                            OrEmpty(Get(templatePackage, kScripts))))),
             kDependencies,
                mergeDependencies(OrEmpty(Get(basePackage, kDependencies)),
                                  OrEmpty(Get(templatePackage, kDependencies)))),
             kDevDependencies,
                mergeDependencies(OrEmpty(Get(basePackage, kDevDependencies)),
                                  OrEmpty(Get(templatePackage, kDevDependencies)))))

(***************************************************************************)
(* Files: [path, content, encoding].  A JavaScript Map keyed by path is a  *)
(* sequence of files with distinct paths, in insertion order.              *)
(***************************************************************************)
File(path, content, encoding) == [path |-> path, content |-> content, encoding |-> encoding]

Paths(files) == {files[i].path : i \in 1..Len(files)}

\* map.set(file.path, file): a key already present keeps its place
MapSet(map, file) ==
    IF file.path \in Paths(map)
    THEN [i \in 1..Len(map) |-> IF map[i].path = file.path THEN file ELSE map[i]]
    ELSE Append(map, file)

\* map.get(path), for a path that is in the map
MapGet(map, path) ==
    map[CHOOSE i \in 1..Len(map) : map[i].path = path]

\* map.delete(path)
MapDelete(map, path) == SelectSeq(map, LAMBDA f : f.path # path)

RECURSIVE MapFromList(_, _, _)
MapFromList(map, files, i) ==
    IF i > Len(files) THEN map ELSE MapFromList(MapSet(map, files[i]), files, i + 1)

(***************************************************************************)
(* mergePartialFiles.                                                      *)
(***************************************************************************)
PartialMarker == <<".", "p", "a", "r", "t", "i", "a", "l", ".">>
README == <<"R", "E", "A", "D", "M", "E">>
placeholder ==
    <<"<", "!", "-", "-", " ">>
    \o <<"D", "E", "V", "_", "W", "O", "R", "K", "F", "L", "O", "W", "_">>
    \o <<"P", "A", "R", "T", "I", "A", "L", "_">>
    \o <<"P", "L", "A", "C", "E", "H", "O", "L", "D", "E", "R">>
    \o <<" ", "-", "-", ">">>

\* path.replace('.partial.', '.')
targetPathOf(path) == replace(path, PartialMarker, <<".">>)

\* mergedContent with the partial put before the template's content
mergedContentBaseFirst(targetPath, templateFile, baseFile) ==
    baseFile.content \o <<"\n">> \o templateFile.content

\* the content of a partial merged into its template file
mergedContent(targetPath, templateFile, baseFile) ==
    IF includes(targetPath, README)
    THEN IF includes(templateFile.content, placeholder)
         THEN replace(templateFile.content, placeholder, baseFile.content)
         ELSE templateFile.content \o <<"\n">> \o baseFile.content
    ELSE templateFile.content \o <<"\n">> \o baseFile.content

\* the loop over baseFiles from index i: [result, templateFileMap]
RECURSIVE processBaseFiles(_, _, _, _)
processBaseFiles(baseFiles, i, result, templateFileMap) ==
    IF i > Len(baseFiles) THEN [result |-> result, templateFileMap |-> templateFileMap]
    ELSE LET baseFile == baseFiles[i]
         IN  IF includes(baseFile.path, PartialMarker)
             THEN LET targetPath == targetPathOf(baseFile.path)
                  IN  IF targetPath \in Paths(templateFileMap)
                      THEN LET templateFile == MapGet(templateFileMap, targetPath)
                           IN  processBaseFiles(baseFiles, i + 1,
                                 Append(result,
                                    File(targetPath,
                                         mergedContent(targetPath, templateFile, baseFile),
                                         templateFile.encoding)),
                                 MapDelete(templateFileMap, targetPath))
                      ELSE processBaseFiles(baseFiles, i + 1,
                             Append(result,
                                File(targetPath, baseFile.content, baseFile.encoding)),
                             templateFileMap)
             ELSE processBaseFiles(baseFiles, i + 1, Append(result, baseFile),
                                   templateFileMap)

\* mergePartialFiles emitting the leftover template files first
mergePartialFilesTemplateFirst(baseFiles, templateFiles) ==
    LET r == processBaseFiles(baseFiles, 1, <<>>, MapFromList(<<>>, templateFiles, 1))
    IN  r.templateFileMap \o r.result

mergePartialFiles(baseFiles, templateFiles) ==
    LET r == processBaseFiles(baseFiles, 1, <<>>, MapFromList(<<>>, templateFiles, 1))
    IN  r.result \o r.templateFileMap

(***************************************************************************)
(* render and renderWithInheritance.  A tree on disk is the sequence of    *)
(* its files [path, content] in the order readdir enumerates them, paths   *)
(* relative to the root and distinct.                                      *)
(***************************************************************************)
\* the files list render builds from a tree
render(tree, context) ==
    [i \in 1..Len(tree) |->
        File(renderFile(tree[i].path, context),
             renderFile(tree[i].content, context),
             "utf-8")]

PackageJson == <<"p", "a", "c", "k", "a", "g", "e", ".", "j", "s", "o", "n">>
PackageJsonTemplate == PackageJson \o <<".", "t", "e", "m", "p", "l", "a", "t", "e">>

isPackageFile(f) == f.path = PackageJsonTemplate \/ f.path = PackageJson

\* files.find(isPackageFile), as the index of the file found: 0 when no
\* file matches
findPackageFile(files) ==
    LET I == {i \in 1..Len(files) : isPackageFile(files[i])}
    IN  IF I = {} THEN 0 ELSE Min(I)

\* mergePackageFiles with a descriptor that does not parse taken as {}
mergePackageFilesLenient(baseFiles, templateFiles) ==
    LET b == findPackageFile(baseFiles)
        t == findPackageFile(templateFiles)
        orEmpty(value) == IF value.t = "obj" THEN value ELSE JObj(<<>>)
    IN  IF b = 0 \/ t = 0 THEN templateFiles
        ELSE [templateFiles EXCEPT ![t] =
                File(templateFiles[t].path,
                     JSONstringify(mergePackageJson(
                        orEmpty(JSONparse(baseFiles[b].content)),
                        orEmpty(JSONparse(templateFiles[t].content)))),
                     templateFiles[t].encoding)]

\* templateFiles after the package.json step (lines 110-140)
mergePackageFiles(baseFiles, templateFiles) ==
    LET b == findPackageFile(baseFiles)
        t == findPackageFile(templateFiles)
    IN  IF b = 0 \/ t = 0 THEN templateFiles
        ELSE LET basePackage == JSONparse(baseFiles[b].content)
                 templatePackage == JSONparse(templateFiles[t].content)
             IN  IF basePackage.t = "SyntaxError" \/ templatePackage.t = "SyntaxError"
                 THEN templateFiles
                 ELSE LET mergedPackage == mergePackageJson(basePackage, templatePackage)
                      IN  IF mergedPackage.t = "TypeError" THEN templateFiles
                          ELSE [templateFiles EXCEPT ![t] =
                                  File(templateFiles[t].path,
                                       JSONstringify(mergedPackage),
                                       templateFiles[t].encoding)]

\* fillFileMap without the test that skips the marked paths
RECURSIVE fillFileMapUnfiltered(_, _, _)
fillFileMapUnfiltered(fileMap, mergedFiles, i) ==
    IF i > Len(mergedFiles) THEN fileMap
    ELSE fillFileMapUnfiltered(MapSet(fileMap, mergedFiles[i]), mergedFiles, i + 1)

\* fillFileMap pushing to a list instead of setting a map entry
fillFileMapPush(fileMap, mergedFiles, i) ==
    fileMap \o SelectSeq(SubSeq(mergedFiles, i, Len(mergedFiles)),
                         LAMBDA f : ~includes(f.path, PartialMarker))

\* the loop that fills fileMap from mergedFiles (lines 146-157)
RECURSIVE fillFileMap(_, _, _)
fillFileMap(fileMap, mergedFiles, i) ==
    IF i > Len(mergedFiles) THEN fileMap
    ELSE IF includes(mergedFiles[i].path, PartialMarker)
         THEN fillFileMap(fileMap, mergedFiles, i + 1)
         ELSE fillFileMap(MapSet(fileMap, mergedFiles[i]), mergedFiles, i + 1)

\* what renderWithInheritance returns once both trees are rendered
inheritanceResult(baseFiles, templateFiles) ==
    fillFileMap(<<>>,
                mergePartialFiles(baseFiles, mergePackageFiles(baseFiles, templateFiles)),
                1)

(***************************************************************************)
(* The inputs of the model: the files that may lie in the two trees, the   *)
(* contexts and the base paths a call may be given.                        *)
(***************************************************************************)
pathAMd == <<"a", ".", "m", "d">>
pathCMd == <<"c", ".", "m", "d">>
pathAPartialMd == <<"a">> \o PartialMarker \o <<"m", "d">>
pathBPartialMd == <<"b">> \o PartialMarker \o <<"m", "d">>
pathADoublePartialMd ==
    <<"a">> \o PartialMarker \o <<"p", "a", "r", "t", "i", "a", "l", ".", "m", "d">>
pathReadmeMd == README \o <<".", "m", "d">>
pathReadmePartialMd == README \o PartialMarker \o <<"m", "d">>
readme == <<"r", "e", "a", "d", "m", "e">>
pathReadmeLowerMd == readme \o <<".", "m", "d">>
pathReadmeLowerPartialMd == readme \o PartialMarker \o <<"m", "d">>
pathPackagePartialJson ==
    <<"p", "a", "c", "k", "a", "g", "e">> \o PartialMarker \o <<"j", "s", "o", "n">>
kProjectName == <<"p", "r", "o", "j", "e", "c", "t", "N", "a", "m", "e">>
tokenProjectName == OpenVar \o kProjectName \o CloseVar
pathProjectNameMd == tokenProjectName \o <<".", "m", "d">>

\* {"scripts":{"dev":"a"},"name":"b"}
textBasePackage ==
    <<"{", "\"", "s", "c", "r", "i", "p", "t", "s", "\"", ":", "{", "\"",
      "d", "e", "v", "\"", ":", "\"", "a", "\"", "}", ",", "\"", "n",
      "a", "m", "e", "\"", ":", "\"", "b", "\"", "}">>
\* {"scripts":{"dev":"b","build":"c"}}
textTemplatePackage ==
    <<"{", "\"", "s", "c", "r", "i", "p", "t", "s", "\"", ":", "{", "\"",
      "d", "e", "v", "\"", ":", "\"", "b", "\"", ",", "\"", "b", "u",
      "i", "l", "d", "\"", ":", "\"", "c", "\"", "}", "}">>
\* invalid json {
textMalformed ==
    <<"i", "n", "v", "a", "l", "i", "d", " ", "j", "s", "o", "n", " ",
      "{">>

RawFile(path, content) == [path |-> path, content |-> content]

BaseTreeFiles ==
    { RawFile(pathAPartialMd, <<"X">>),
      RawFile(pathAMd, <<"B">>),
      RawFile(PackageJson, textBasePackage),
      RawFile(PackageJson, textMalformed),
      RawFile(pathPackagePartialJson, <<"P">>) }

TemplateTreeFiles ==
    { RawFile(pathAMd, <<"Y">>),
      RawFile(pathProjectNameMd, <<"W", "=">> \o tokenProjectName),
      RawFile(pathBPartialMd, <<"Q">>),
      RawFile(PackageJson, textTemplatePackage),
      RawFile(PackageJson, textMalformed),
      RawFile(PackageJsonTemplate, textTemplatePackage) }

Contexts == { <<>>, (kProjectName :> <<"a">>) }

\* the basePath argument: undefined, a path that does not exist, the path
\* of the base tree
BasePaths == {"undefined", "/nonexistent", "/base"}

(***************************************************************************)
(* State.                                                                  *)
(***************************************************************************)
VARIABLES
    baseTree,        \* the files under the base root, in readdir order
    templateTree,    \* the files under the template root, in readdir order
    pc,              \* where the renderWithInheritance call stands
    basePath,        \* its basePath argument
    context,         \* its context argument
    baseFiles,       \* its local baseFiles
    templateFiles,   \* its local templateFiles
    returned,        \* the list it returned
    partialCall,     \* the last mergePartialFiles call: arguments and result
    packageCall,     \* the last mergePackageJson call: arguments and result
    renderCall,      \* the last renderFile call: arguments and result
    rerenderCall,    \* the renderFile call made on that result: context and result
    disk,            \* the template.json files on disk: directory name -> metadata
    templates,       \* TemplateRegistry.templates: a Map from id to descriptor
    loaded,          \* the registry has been constructed
    registryCall,    \* the last call of a registry method: arguments and result
    chainCall,       \* two groupings of mergePackageJson over three objects
    walk,            \* a getWithBase call taken one lookup at a time
    iconCall,        \* a render call on a tree that holds icons: tree, context, result
    io,              \* a renderWithInheritance call on trees that may not be readable
    calls,           \* the calls in flight on one engine: the locals of each
    create           \* a createCommand call: arguments, locals, directories, error

treeVars == <<baseTree, templateTree>>
callVars == <<pc, basePath, context, baseFiles, templateFiles, returned>>
renderVars == <<renderCall, rerenderCall>>
registryVars == <<disk, templates, loaded, registryCall>>
vars == <<baseTree, templateTree, pc, basePath, context, baseFiles,
          templateFiles, returned, partialCall, packageCall,
          renderCall, rerenderCall, disk, templates, loaded, registryCall,
          chainCall, walk, iconCall, io, calls, create>>

\* the variables of the calls modelled further down
moreVars == <<chainCall, walk, iconCall, io, calls, create>>

NoCall == [called |-> FALSE]

Init ==
    /\ baseTree = <<>>
    /\ templateTree = <<>>
    /\ pc = "idle"
    /\ basePath = "undefined"
    /\ context = <<>>
    /\ baseFiles = <<>>
    /\ templateFiles = <<>>
    /\ returned = <<>>
    /\ partialCall = NoCall
    /\ packageCall = NoCall
    /\ renderCall = NoCall
    /\ rerenderCall = NoCall
    /\ disk = <<>>
    /\ templates = <<>>
    /\ loaded = FALSE
    /\ registryCall = NoCall
    /\ chainCall = NoCall
    /\ iconCall = NoCall
    /\ io = [pc |-> "idle"]
    /\ calls = [c \in {"c1", "c2"} |-> [pc |-> "idle"]]
    /\ create = [pc |-> "idle"]
    /\ walk = [pc |-> "idle", id |-> "", template |-> [defined |-> FALSE],
               result |-> [defined |-> FALSE]]

(***************************************************************************)
(* The trees are written before the engine is called.                      *)
(***************************************************************************)
WriteBaseFile(f) ==
    /\ pc = "idle"
    /\ Len(baseTree) < MaxBaseTree
    /\ f.path \notin Paths(baseTree)
    /\ baseTree' = Append(baseTree, f)
    /\ UNCHANGED <<moreVars, templateTree, callVars, partialCall, packageCall,
                   renderVars, registryVars>>

WriteTemplateFile(f) ==
    /\ pc = "idle"
    /\ Len(templateTree) < MaxTemplateTree
    /\ f.path \notin Paths(templateTree)
    /\ templateTree' = Append(templateTree, f)
    /\ UNCHANGED <<moreVars, baseTree, callVars, partialCall, packageCall,
                   renderVars, registryVars>>

(***************************************************************************)
(* renderWithInheritance(templatePath, basePath, context), one action per  *)
(* stretch of code between two awaits.                                     *)
(***************************************************************************)
\* lines 88-91: entry, and the test of !basePath
RenderWithInheritance(bp, ctx) ==
    /\ pc = "idle"
    /\ basePath' = bp
    /\ context' = ctx
    /\ pc' = IF bp = "undefined" THEN "render" ELSE "stat"
    /\ UNCHANGED <<moreVars, treeVars, baseFiles, templateFiles, returned, partialCall, packageCall,
                   renderVars, registryVars>>

\* lines 96-102: await fs.stat(basePath) and its catch
StatBase ==
    /\ pc = "stat"
    /\ pc' = IF basePath = "/base" THEN "renderBase" ELSE "render"
    /\ UNCHANGED <<moreVars, treeVars, basePath, context, baseFiles, templateFiles, returned,
                   partialCall, packageCall,
                   renderVars, registryVars>>

\* RenderOnly sending the template's files through the merge with no base files
RenderOnlyThroughMerge ==
    /\ pc = "render"
    /\ returned' = inheritanceResult(<<>>, render(templateTree, context))
    /\ pc' = "done"
    /\ UNCHANGED <<moreVars, treeVars, basePath, context, baseFiles, templateFiles,
                   partialCall, packageCall,
                   renderVars, registryVars>>

\* lines 90 and 101: return this.render(templatePath, context)
RenderOnly ==
    /\ pc = "render"
    /\ returned' = render(templateTree, context)
    /\ pc' = "done"
    /\ UNCHANGED <<moreVars, treeVars, basePath, context, baseFiles, templateFiles,
                   partialCall, packageCall,
                   renderVars, registryVars>>

\* line 105: const baseFiles = await this.render(basePath, context)
RenderBase ==
    /\ pc = "renderBase"
    /\ baseFiles' = render(baseTree, context)
    /\ pc' = "renderTemplate"
    /\ UNCHANGED <<moreVars, treeVars, basePath, context, templateFiles, returned,
                   partialCall, packageCall,
                   renderVars, registryVars>>

\* lines 108-157: the template render and everything after it; templateFiles
\* is left as the package.json step leaves it
RenderTemplateAndMerge ==
    /\ pc = "renderTemplate"
    /\ LET rendered == render(templateTree, context)
       IN  /\ templateFiles' = mergePackageFiles(baseFiles, rendered)
           /\ returned' = inheritanceResult(baseFiles, rendered)
    /\ pc' = "done"
    /\ UNCHANGED <<moreVars, treeVars, basePath, context, baseFiles, partialCall, packageCall,
                   renderVars, registryVars>>

Next ==
    \/ \E f \in BaseTreeFiles : WriteBaseFile(f)
    \/ \E f \in TemplateTreeFiles : WriteTemplateFile(f)
    \/ \E bp \in BasePaths, ctx \in Contexts : RenderWithInheritance(bp, ctx)
    \/ StatBase
    \/ RenderOnly
    \/ RenderBase
    \/ RenderTemplateAndMerge

Spec == Init /\ [][Next]_vars

(***************************************************************************)
(* mergePartialFiles called on its own, on any two lists of files of at    *)
(* most MaxList entries.                                                   *)
(***************************************************************************)
BaseListFiles ==
    { File(pathAPartialMd, <<"X">>, "binary"),
      File(pathAMd, <<"B">>, "utf-8"),
      File(pathADoublePartialMd, <<"Z">>, "utf-8"),
      File(pathReadmePartialMd, <<"D">>, "utf-8"),
      File(pathReadmePartialMd, <<"$", "&">>, "utf-8"),
      File(pathReadmeLowerPartialMd, <<"D">>, "utf-8") }

TemplateListFiles ==
    { File(pathAMd, <<"Y">>, "utf-8"),
      File(pathBPartialMd, <<"Q">>, "utf-8"),
      File(pathCMd, <<"V">>, "utf-8"),
      File(pathReadmeMd, <<"#", "\n">> \o placeholder \o <<"\n", "E">>, "utf-8"),
      File(pathReadmeMd, <<"R">>, "utf-8"),
      File(pathReadmeLowerMd, placeholder \o <<"E">>, "utf-8") }

ListsOf(S, n) == UNION {[1..k -> S] : k \in 0..n}

MergePartialFiles(b, t) ==
    /\ partialCall' = [called |-> TRUE, baseFiles |-> b, templateFiles |-> t,
                       result |-> mergePartialFiles(b, t)]
    /\ UNCHANGED <<moreVars, treeVars, callVars, packageCall,
                   renderVars, registryVars>>

\* one call in each behaviour
NextPartial ==
    /\ ~partialCall.called
    /\ \E b \in ListsOf(BaseListFiles, MaxList), t \in ListsOf(TemplateListFiles, MaxList) :
          MergePartialFiles(b, t)

SpecPartial == Init /\ [][NextPartial]_vars

(***************************************************************************)
(* mergePackageJson called on its own, on any two package objects.         *)
(***************************************************************************)
Entry(key, value) == [k |-> key, v |-> value]
kName == <<"n", "a", "m", "e">>
kDev == <<"d", "e", "v">>
kBuild == <<"b", "u", "i", "l", "d">>

\* a property that is absent, or present with one of the values
Optional(key, values) == {<<>>} \cup {<<Entry(key, v)>> : v \in values}

PackageObjects ==
    { JObj(n \o sc \o d \o dd) :
        n \in Optional(kName, {JStr(<<"b">>), JStr(<<"t">>)}),
        sc \in Optional(kScripts,
                 { JNull, JObj(<<>>),
                   JObj(<<Entry(kDev, JStr(<<"a">>))>>),
                   JObj(<<Entry(kDev, JStr(<<"b">>)), Entry(kBuild, JStr(<<"c">>))>>) }),
        d \in Optional(kDependencies,
                 { JObj(<<Entry(<<"r">>, JStr(<<"1">>))>>),
                   JObj(<<Entry(<<"v">>, JStr(<<"3">>)), Entry(<<"r">>, JStr(<<"2">>))>>) }),
        dd \in Optional(kDevDependencies,
                 { JObj(<<Entry(<<"w">>, JStr(<<"8">>))>>),
                   JObj(<<Entry(<<"w">>, JStr(<<"9">>)), Entry(<<"t">>, JStr(<<"5">>))>>) }) }

MergePackageJson(b, t) ==
    /\ packageCall' = [called |-> TRUE, basePackage |-> b, templatePackage |-> t,
                       result |-> mergePackageJson(b, t)]
    /\ UNCHANGED <<moreVars, treeVars, callVars, partialCall,
                   renderVars, registryVars>>

\* package objects whose three maps are maps or absent
ChainObjects ==
    { JObj(n \o sc \o d \o dd) :
        n \in Optional(kName, {JStr(<<"b">>)}),
        sc \in Optional(kScripts,
                 { JObj(<<Entry(kDev, JStr(<<"a">>))>>),
                   JObj(<<Entry(kDev, JStr(<<"b">>)), Entry(kBuild, JStr(<<"c">>))>>) }),
        d \in Optional(kDependencies,
                 { JObj(<<Entry(<<"r">>, JStr(<<"1">>))>>),
                   JObj(<<Entry(<<"v">>, JStr(<<"3">>)), Entry(<<"r">>, JStr(<<"2">>))>>) }),
        dd \in Optional(kDevDependencies, {JObj(<<Entry(<<"w">>, JStr(<<"8">>))>>)}) }

\* a chain of three descriptors merged in the two groupings
MergePackageJsonChain(a, b, c) ==
    /\ chainCall' = [called |-> TRUE, a |-> a, b |-> b, c |-> c,
                     left |-> mergePackageJson(mergePackageJson(a, b), c),
                     right |-> mergePackageJson(a, mergePackageJson(b, c))]
    /\ UNCHANGED <<walk, iconCall, io, calls, create, treeVars, callVars, partialCall, packageCall,
                   renderVars, registryVars>>

\* one call in each behaviour
NextPackage ==
    /\ ~packageCall.called
    /\ ~chainCall.called
    /\ \/ \E b \in PackageObjects, t \in PackageObjects : MergePackageJson(b, t)
       \/ \E a \in ChainObjects, b \in ChainObjects, c \in ChainObjects :
             MergePackageJsonChain(a, b, c)

SpecPackage == Init /\ [][NextPackage]_vars

(***************************************************************************)
(* renderFile called on its own: a content made of at most MaxPieces       *)
(* pieces and a context, then the result rendered again with a context     *)
(* that has at least the keys of the first, with the same values.          *)
(***************************************************************************)
kA == <<"a">>
kK == <<"k">>
Token(name) == OpenVar \o name \o CloseVar
IfOpen(name) == OpenIf \o <<" ">> \o name \o CloseVar

Pieces ==
    { <<"x">>,
      Token(kA), Token(kK), Token(kConstructor),
      IfOpen(kA), IfOpen(kK), IfOpen(kConstructor),
      CloseIf }

RECURSIVE Concat(_, _)
Concat(pieces, i) ==
    IF i > Len(pieces) THEN <<>> ELSE pieces[i] \o Concat(pieces, i + 1)

Contents == {Concat(ps, 1) : ps \in UNION {[1..n -> Pieces] : n \in 0..MaxPieces}}

RenderContexts ==
    { <<>>,
      (kA :> <<>>),
      (kA :> <<"v">>),
      (kA :> Token(kK)),
      (kA :> <<"v">>) @@ (kK :> <<"w">>),
      (kA :> Token(kK)) @@ (kK :> <<"w">>),
      (kConstructor :> <<"c">>) }

\* ctx2 has every key of ctx1, with the same value
ExtendsContext(ctx2, ctx1) ==
    /\ DOMAIN ctx1 \subseteq DOMAIN ctx2
    /\ \A key \in DOMAIN ctx1 : ctx2[key] = ctx1[key]

RenderFile(content, ctx) ==
    /\ ~renderCall.called
    /\ renderCall' = [called |-> TRUE, content |-> content, context |-> ctx,
                      result |-> renderFile(content, ctx)]
    /\ UNCHANGED <<moreVars, treeVars, callVars, partialCall, packageCall, rerenderCall,
                   registryVars>>

RenderFileAgain(ctx) ==
    /\ renderCall.called
    /\ ~rerenderCall.called
    /\ ExtendsContext(ctx, renderCall.context)
    /\ rerenderCall' = [called |-> TRUE, context |-> ctx,
                        result |-> renderFile(renderCall.result, ctx)]
    /\ UNCHANGED <<moreVars, treeVars, callVars, partialCall, packageCall, renderCall,
                   registryVars>>

NextRender ==
    \/ /\ ~renderCall.called
       /\ \E content \in Contents, ctx \in RenderContexts : RenderFile(content, ctx)
    \/ \E ctx \in RenderContexts : RenderFileAgain(ctx)

SpecRender == Init /\ [][NextRender]_vars

(***************************************************************************)
(* TemplateRegistry.  A template descriptor is a record [id, name,         *)
(* description, files, dependencies, devDependencies, scripts, extends]:   *)
(* the two dependency lists are sequences of strings, scripts is an object *)
(* or undefined, and extends is <<>> when absent and <<id>> when present.  *)
(* The Map templates is the sequence of its entries [key, template] in     *)
(* insertion order.                                                        *)
(***************************************************************************)
\* path.join(templatesDir, dir, 'files')
FilesPath(dir) == <<"templates", dir, "files">>

\* this.templates.set(dir, {...metadata, files}) when dir/template.json exists
loadTemplate(map, onDisk, dir) ==
    IF dir \in DOMAIN onDisk
    THEN Append(map, [key |-> dir,
                      template |-> [files |-> FilesPath(dir)] @@ onDisk[dir]])
    ELSE map

\* loadTemplates: base, then vanilla, then react
loadTemplates(onDisk) ==
    loadTemplate(loadTemplate(loadTemplate(<<>>, onDisk, "base"), onDisk, "vanilla"),
                 onDisk, "react")

\* this.templates.has(id)
has(map, id) == \E i \in 1..Len(map) : map[i].key = id

\* this.templates.get(id), for an id the map has
get(map, id) == map[CHOOSE i \in 1..Len(map) : map[i].key = id].template

\* the value getWithBase returns: undefined, or a descriptor
NoTemplate == [defined |-> FALSE]
Some(template) == [defined |-> TRUE, template |-> template]

\* !template.extends: absent, or the empty string
NoExtends(template) == template.extends = <<>> \/ template.extends = <<"">>

\* the merge with the template's entries put before the base's
mergeWithBaseTemplateFirst(baseTemplate, template) ==
    [template EXCEPT
        !.dependencies = template.dependencies \o baseTemplate.dependencies,
        !.devDependencies = template.devDependencies \o baseTemplate.devDependencies,
        !.scripts = JObj(Spread(OrEmpty(template.scripts), OrEmpty(baseTemplate.scripts)))]

\* the merge of lines 396-407
mergeWithBase(baseTemplate, template) ==
    [template EXCEPT
        !.dependencies = baseTemplate.dependencies \o template.dependencies,
        !.devDependencies = baseTemplate.devDependencies \o template.devDependencies,
        !.scripts = JObj(Spread(OrEmpty(baseTemplate.scripts), OrEmpty(template.scripts)))]

\* getWithBase giving undefined when the base is not registered
getWithBaseStrict(map, id) ==
    IF ~has(map, id) THEN NoTemplate
    ELSE LET template == get(map, id)
         IN  IF NoExtends(template) THEN Some(template)
             ELSE IF ~has(map, template.extends[1]) THEN NoTemplate
             ELSE Some(mergeWithBase(get(map, template.extends[1]), template))

\* getWithBase merging the base's own base first, when it has one
getWithBaseTwoHops(map, id) ==
    IF ~has(map, id) THEN NoTemplate
    ELSE LET template == get(map, id)
         IN  IF NoExtends(template) THEN Some(template)
             ELSE IF ~has(map, template.extends[1]) THEN Some(template)
             ELSE LET baseTemplate == get(map, template.extends[1])
                  IN  IF NoExtends(baseTemplate) \/ ~has(map, baseTemplate.extends[1])
                      THEN Some(mergeWithBase(baseTemplate, template))
                      ELSE Some(mergeWithBase(
                                  mergeWithBase(get(map, baseTemplate.extends[1]),
                                                baseTemplate),
                                  template))

getWithBase(map, id) ==
    IF ~has(map, id) THEN NoTemplate
    ELSE LET template == get(map, id)
         IN  IF NoExtends(template) THEN Some(template)
             ELSE IF ~has(map, template.extends[1]) THEN Some(template)
             ELSE Some(mergeWithBase(get(map, template.extends[1]), template))

\* the directories under templates/ and the ids a caller may ask for
TemplateDirs == {"base", "vanilla", "react", "vue"}
TemplateIds == TemplateDirs \cup {"nope"}

Scripts(entries) == JObj(entries)

\* what a template.json may hold besides its id
MetadataBodies ==
    { [name |-> "M1", description |-> "d1", dependencies |-> <<"p">>,
       devDependencies |-> <<"w">>,
       scripts |-> Scripts(<<Entry(kDev, JStr(<<"a">>))>>), extends |-> <<>>],
      [name |-> "M2", description |-> "d2", dependencies |-> <<"p">>,
       devDependencies |-> <<"w", "w">>,
       scripts |-> JUndefined, extends |-> <<>>],
      [name |-> "M3", description |-> "d3", dependencies |-> <<"p", "q">>,
       devDependencies |-> <<"v">>,
       scripts |-> Scripts(<<Entry(kDev, JStr(<<"b">>)), Entry(kBuild, JStr(<<"c">>))>>),
       extends |-> <<"base">>],
      [name |-> "M4", description |-> "d4", dependencies |-> <<>>,
       devDependencies |-> <<"v">>,
       scripts |-> JUndefined, extends |-> <<"base">>],
      [name |-> "M5", description |-> "d5", dependencies |-> <<"r">>,
       devDependencies |-> <<>>,
       scripts |-> Scripts(<<Entry(kBuild, JStr(<<"d">>))>>), extends |-> <<"vanilla">>],
      [name |-> "M6", description |-> "d6", dependencies |-> <<"s">>,
       devDependencies |-> <<"u">>,
       scripts |-> Scripts(<<Entry(kBuild, JStr(<<"e">>))>>), extends |-> <<"nope">>],
      [name |-> "M7", description |-> "d7", dependencies |-> <<"t">>,
       devDependencies |-> <<"x">>,
       scripts |-> Scripts(<<Entry(kDev, JStr(<<"f">>))>>), extends |-> <<"react">>] }

\* dir/template.json is written, before the registry is constructed
WriteTemplateJson(dir, body) ==
    /\ ~loaded
    /\ dir \notin DOMAIN disk
    /\ disk' = disk @@ (dir :> ([id |-> dir] @@ body))
    /\ UNCHANGED <<moreVars, treeVars, callVars, partialCall, packageCall, renderVars,
                   templates, loaded, registryCall>>

\* new TemplateRegistry(): the constructor calls loadTemplates
NewTemplateRegistry ==
    /\ ~loaded
    /\ templates' = loadTemplates(disk)
    /\ loaded' = TRUE
    /\ UNCHANGED <<moreVars, treeVars, callVars, partialCall, packageCall, renderVars,
                   disk, registryCall>>

GetWithBase(id) ==
    /\ loaded
    /\ registryCall' = [called |-> TRUE, method |-> "getWithBase", id |-> id,
                        result |-> getWithBase(templates, id)]
    /\ UNCHANGED <<moreVars, treeVars, callVars, partialCall, packageCall, renderVars,
                   disk, templates, loaded>>

Has(id) ==
    /\ loaded
    /\ registryCall' = [called |-> TRUE, method |-> "has", id |-> id,
                        result |-> [defined |-> has(templates, id)]]
    /\ UNCHANGED <<moreVars, treeVars, callVars, partialCall, packageCall, renderVars,
                   disk, templates, loaded>>

NextRegistry ==
    \/ \E dir \in TemplateDirs, body \in MetadataBodies : WriteTemplateJson(dir, body)
    \/ NewTemplateRegistry
    \/ \E id \in TemplateIds : GetWithBase(id)
    \/ \E id \in TemplateIds : Has(id)

SpecRegistry == Init /\ [][NextRegistry]_vars

(***************************************************************************)
(* getWithBase taken one Map lookup at a time: the lookup of the id, then  *)
(* the lookup of the id its descriptor extends.  A synchronous function    *)
(* runs until it returns, so its steps are taken under weak fairness.      *)
(***************************************************************************)
\* getWithBase walking up the extends pointers until a descriptor has none
getWithBaseStepToRoot(map, w) ==
    IF w.pc = "get"
    THEN IF ~has(map, w.id) THEN [w EXCEPT !.pc = "done", !.result = NoTemplate]
         ELSE IF NoExtends(get(map, w.id))
              THEN [w EXCEPT !.pc = "done", !.result = Some(get(map, w.id))]
              ELSE [w EXCEPT !.pc = "base", !.template = Some(get(map, w.id))]
    ELSE LET template == w.template.template
         IN  IF ~has(map, template.extends[1])
             THEN [w EXCEPT !.pc = "done", !.result = Some(template)]
             ELSE LET baseTemplate == get(map, template.extends[1])
                  IN  IF NoExtends(baseTemplate)
                      THEN [w EXCEPT !.pc = "done",
                                     !.result = Some(mergeWithBase(baseTemplate, template))]
                      ELSE [w EXCEPT !.template = Some(baseTemplate)]

\* one step of the call: lines 378-387 at "get", lines 389-407 at "base"
getWithBaseStep(map, w) ==
    IF w.pc = "get"
    THEN IF ~has(map, w.id) THEN [w EXCEPT !.pc = "done", !.result = NoTemplate]
         ELSE IF NoExtends(get(map, w.id))
              THEN [w EXCEPT !.pc = "done", !.result = Some(get(map, w.id))]
              ELSE [w EXCEPT !.pc = "base", !.template = Some(get(map, w.id))]
    ELSE LET template == w.template.template
         IN  IF ~has(map, template.extends[1])
             THEN [w EXCEPT !.pc = "done", !.result = Some(template)]
             ELSE [w EXCEPT !.pc = "done",
                            !.result = Some(mergeWithBase(get(map, template.extends[1]),
                                                          template))]

GetWithBaseCalled(id) ==
    /\ loaded
    /\ walk.pc = "idle"
    /\ walk' = [walk EXCEPT !.pc = "get", !.id = id]
    /\ UNCHANGED <<chainCall, iconCall, io, calls, create, treeVars, callVars, partialCall, packageCall, renderVars,
                   registryVars>>

GetWithBaseStep ==
    /\ walk.pc \in {"get", "base"}
    /\ walk' = getWithBaseStep(templates, walk)
    /\ UNCHANGED <<chainCall, iconCall, io, calls, create, treeVars, callVars, partialCall, packageCall, renderVars,
                   registryVars>>

NextGetWithBase ==
    \/ \E dir \in TemplateDirs, body \in MetadataBodies : WriteTemplateJson(dir, body)
    \/ NewTemplateRegistry
    \/ \E id \in TemplateIds : GetWithBaseCalled(id)
    \/ GetWithBaseStep

SpecGetWithBase == Init /\ [][NextGetWithBase]_vars /\ WF_vars(GetWithBaseStep)

(***************************************************************************)
(* render on a tree that holds icons.  A file on disk is [path, bytes];    *)
(* a byte is an ASCII character or a byte that starts no UTF-8 sequence    *)
(* (0x89, the first byte of a PNG file).                                   *)
(***************************************************************************)
Byte89 == "0x89"
ReplacementCharacter == "U+FFFD"

\* fs.readFile(fullPath, 'utf-8'): a byte that is not valid UTF-8 is
\* decoded to U+FFFD
readFileUtf8(bytes) ==
    [i \in 1..Len(bytes) |-> IF bytes[i] = Byte89 THEN ReplacementCharacter ELSE bytes[i]]

\* render from the bytes on disk: every file is read as UTF-8
renderBytes(tree, ctx) ==
    render([i \in 1..Len(tree) |->
               [path |-> tree[i].path, content |-> readFileUtf8(tree[i].bytes)]], ctx)

dotPng == <<".", "p", "n", "g">>
dotMd == <<".", "m", "d">>

DiskFiles ==
    { [path |-> <<"i">> \o dotPng, bytes |-> <<Byte89, "P">>],
      [path |-> <<"j">> \o dotPng, bytes |-> <<"P">> \o Token(kA)],
      [path |-> <<"k">> \o dotPng, bytes |-> IfOpen(kA) \o <<"P">> \o <<"{", "{", "/", "i", "f", "}", "}">>],
      [path |-> <<"l">> \o dotPng, bytes |-> <<"P", "N", "G">>],
      [path |-> <<"a">> \o dotMd, bytes |-> <<"x">> \o Token(kA)],
      [path |-> <<"b">> \o dotMd, bytes |-> <<"y">>] }

\* the trees of at most MaxList files with distinct paths
DiskTrees ==
    {t \in ListsOf(DiskFiles, MaxList) : \A i, j \in 1..Len(t) : t[i].path = t[j].path => i = j}

RenderIcons(tree, ctx) ==
    /\ iconCall' = [called |-> TRUE, tree |-> tree, context |-> ctx,
                    result |-> renderBytes(tree, ctx)]
    /\ UNCHANGED <<chainCall, walk, io, calls, create, treeVars, callVars, partialCall, packageCall,
                   renderVars, registryVars>>

\* one call in each behaviour
NextRenderIcons ==
    /\ ~iconCall.called
    /\ \E tree \in DiskTrees, ctx \in RenderContexts : RenderIcons(tree, ctx)

SpecRenderIcons == Init /\ [][NextRenderIcons]_vars

(***************************************************************************)
(* renderWithInheritance on trees that may not be readable.  A tree is     *)
(* [readable, files]: readable is whether fs.readdir of its root succeeds, *)
(* and each file says whether fs.stat and fs.readFile of it succeed.  The  *)
(* call is [pc, basePath, stat, base, template, context, baseFiles, via,   *)
(* outcome], stat being what fs.stat(basePath) gives.                      *)
(***************************************************************************)
Ok(files) == [ok |-> TRUE, files |-> files]
Failure(error) == [ok |-> FALSE, error |-> error]
NoOutcome == [ok |-> FALSE, error |-> "pending"]

IoFile(path, content, readable) == [path |-> path, content |-> content, readable |-> readable]
IoTree(readable, files) == [readable |-> readable, files |-> files]
NoTree == IoTree(TRUE, <<>>)

\* render: a rejected readdir, stat or readFile rejects the call
renderOrFail(tree, ctx) ==
    IF ~tree.readable \/ \E i \in 1..Len(tree.files) : ~tree.files[i].readable
    THEN Failure("EACCES")
    ELSE Ok(render(tree.files, ctx))

IoBaseTrees ==
    { NoTree,
      IoTree(FALSE, <<>>),
      IoTree(TRUE, <<IoFile(pathAPartialMd, <<"X">>, TRUE)>>),
      IoTree(TRUE, <<IoFile(pathAPartialMd, <<"X">>, FALSE)>>),
      IoTree(TRUE, <<IoFile(pathAMd, <<"B">>, TRUE), IoFile(pathCMd, <<"C">>, TRUE)>>),
      IoTree(TRUE, <<IoFile(pathAMd, <<"B">>, TRUE), IoFile(pathCMd, <<"C">>, FALSE)>>) }

IoTemplateTrees ==
    { NoTree,
      IoTree(FALSE, <<>>),
      IoTree(TRUE, <<IoFile(pathAMd, <<"Y">>, TRUE)>>),
      IoTree(TRUE, <<IoFile(pathAMd, <<"Y">>, FALSE)>>),
      IoTree(TRUE, <<IoFile(pathAMd, <<"Y">>, TRUE),
                     IoFile(pathProjectNameMd, tokenProjectName, TRUE)>>),
      IoTree(TRUE, <<IoFile(pathAMd, <<"Y">>, TRUE),
                     IoFile(pathProjectNameMd, tokenProjectName, FALSE)>>) }

\* what fs.stat(basePath) gives: the directory, no such entry, or a
\* directory above it that may not be searched
StatOutcomes == {"ok", "ENOENT", "EACCES"}

\* lines 88-91: entry and the test of !basePath.  A location that does not
\* exist holds no tree.
IoRenderWithInheritance(bp, st, base, template, ctx) ==
    /\ io.pc = "idle"
    /\ st = "ENOENT" => base = NoTree
    /\ io' = [pc |-> IF bp = "undefined" THEN "render" ELSE "stat",
              basePath |-> bp, stat |-> st, base |-> base, template |-> template,
              context |-> ctx, baseFiles |-> <<>>, via |-> "", outcome |-> NoOutcome]
    /\ UNCHANGED <<chainCall, walk, iconCall, calls, create, treeVars, callVars, partialCall,
                   packageCall, renderVars, registryVars>>

\* lines 96-102: await fs.stat(basePath); the catch takes every rejection
IoStatBase ==
    /\ io.pc = "stat"
    /\ io' = [io EXCEPT !.pc = IF io.stat = "ok" THEN "renderBase" ELSE "render"]
    /\ UNCHANGED <<chainCall, walk, iconCall, calls, create, treeVars, callVars, partialCall,
                   packageCall, renderVars, registryVars>>

\* lines 90 and 101: return this.render(templatePath, context)
IoRenderOnly ==
    /\ io.pc = "render"
    /\ io' = [io EXCEPT !.pc = "done", !.via = "render",
                        !.outcome = renderOrFail(io.template, io.context)]
    /\ UNCHANGED <<chainCall, walk, iconCall, calls, create, treeVars, callVars, partialCall,
                   packageCall, renderVars, registryVars>>

\* line 105: const baseFiles = await this.render(basePath, context)
IoRenderBase ==
    /\ io.pc = "renderBase"
    /\ LET r == renderOrFail(io.base, io.context)
       IN  io' = IF r.ok
                 THEN [io EXCEPT !.pc = "renderTemplate", !.baseFiles = r.files]
                 ELSE [io EXCEPT !.pc = "done", !.via = "merge", !.outcome = r]
    /\ UNCHANGED <<chainCall, walk, iconCall, calls, create, treeVars, callVars, partialCall,
                   packageCall, renderVars, registryVars>>

\* lines 108-157: the template render and everything after it
IoRenderTemplateAndMerge ==
    /\ io.pc = "renderTemplate"
    /\ LET r == renderOrFail(io.template, io.context)
       IN  io' = [io EXCEPT !.pc = "done", !.via = "merge",
                           !.outcome = IF r.ok
                                       THEN Ok(inheritanceResult(io.baseFiles, r.files))
                                       ELSE r]
    /\ UNCHANGED <<chainCall, walk, iconCall, calls, create, treeVars, callVars, partialCall,
                   packageCall, renderVars, registryVars>>

NextIo ==
    \/ \E bp \in {"undefined", "/base"}, st \in StatOutcomes, base \in IoBaseTrees,
          template \in IoTemplateTrees, ctx \in Contexts :
             IoRenderWithInheritance(bp, st, base, template, ctx)
    \/ IoStatBase
    \/ IoRenderOnly
    \/ IoRenderBase
    \/ IoRenderTemplateAndMerge

SpecIo == Init /\ [][NextIo]_vars

(***************************************************************************)
(* Two calls of render / renderWithInheritance in flight on one engine,    *)
(* interleaved at their awaits, while registry methods are called.  The    *)
(* trees on disk are fixed during the calls.  Each call is the record of   *)
(* its arguments and locals; one action per stretch of code between two    *)
(* awaits (the stat and the readFile of one file are taken together).      *)
(***************************************************************************)
Calls == {"c1", "c2"}

\* the tree under each path
DiskTree(path) ==
    IF path = "/t1"
    THEN <<RawFile(pathAMd, <<"Y">>),
           RawFile(pathProjectNameMd, <<"W", "=">> \o tokenProjectName)>>
    ELSE IF path = "/t2"
    THEN <<RawFile(pathCMd, <<"C">>), RawFile(pathAMd, <<"Z">>)>>
    ELSE IF path = "/base"
    THEN <<RawFile(pathAPartialMd, <<"X">>), RawFile(pathCMd, <<"B">>)>>
    ELSE <<>>

\* files.push on an array every call in flight shares
pushFileShared(cs, c, f) ==
    [d \in DOMAIN cs |->
        IF cs[d].pc \in {"renderOnly", "renderBase", "renderTemplate"}
        THEN [cs[d] EXCEPT !.files = Append(@, f)]
        ELSE cs[d]]

\* lines 47 and 66-70: files.push on the array local to the render call
pushFile(cs, c, f) == [cs EXCEPT ![c].files = Append(@, f)]

\* another call is between its entry and its return
OtherInFlight(c) == \E d \in Calls \ {c} : calls[d].pc \notin {"idle", "done"}

\* render(templatePath, context) or renderWithInheritance(...) is entered;
\* c1 names the call entered first
CallStarts(c, kind, tp, bp, ctx) ==
    /\ loaded
    /\ calls[c].pc = "idle"
    /\ c = "c2" => calls["c1"].pc # "idle"
    /\ kind = "render" => bp = "undefined"
    /\ calls' = [calls EXCEPT ![c] =
                    [pc |-> IF kind = "render" \/ bp = "undefined"
                            THEN "renderOnly" ELSE "stat",
                     kind |-> kind, templatePath |-> tp, basePath |-> bp,
                     context |-> ctx, i |-> 1, files |-> <<>>, baseFiles |-> <<>>,
                     returned |-> <<>>, interleaved |-> OtherInFlight(c)]]
    /\ UNCHANGED <<chainCall, walk, iconCall, io, create, treeVars, callVars, partialCall,
                   packageCall, renderVars, registryVars>>

\* lines 96-102
CallStats(c) ==
    /\ calls[c].pc = "stat"
    /\ calls' = [calls EXCEPT ![c].pc = IF calls[c].basePath = "/base"
                                        THEN "renderBase" ELSE "renderOnly",
                              ![c].interleaved = @ \/ OtherInFlight(c)]
    /\ UNCHANGED <<chainCall, walk, iconCall, io, create, treeVars, callVars, partialCall,
                   packageCall, renderVars, registryVars>>

\* the tree the call is reading
Reading(c) ==
    DiskTree(IF calls[c].pc = "renderBase" THEN calls[c].basePath
             ELSE calls[c].templatePath)

\* lines 52-71: one file is read, rendered and pushed
CallReadsFile(c) ==
    /\ calls[c].pc \in {"renderOnly", "renderBase", "renderTemplate"}
    /\ calls[c].i <= Len(Reading(c))
    /\ LET raw == Reading(c)[calls[c].i]
           f == File(renderFile(raw.path, calls[c].context),
                     renderFile(raw.content, calls[c].context), "utf-8")
       IN  calls' = [pushFile(calls, c, f) EXCEPT
                        ![c].i = @ + 1,
                        ![c].interleaved = @ \/ OtherInFlight(c)]
    /\ UNCHANGED <<chainCall, walk, iconCall, io, create, treeVars, callVars, partialCall,
                   packageCall, renderVars, registryVars>>

\* lines 74-75 and what the caller does with the list: return it (lines 90
\* and 101), keep it as baseFiles (line 105), or merge and return (lines
\* 108-157)
CallRenderReturns(c) ==
    /\ calls[c].pc \in {"renderOnly", "renderBase", "renderTemplate"}
    /\ calls[c].i > Len(Reading(c))
    /\ calls' = [calls EXCEPT ![c] =
          IF calls[c].pc = "renderOnly"
          THEN [@ EXCEPT !.pc = "done", !.returned = calls[c].files]
          ELSE IF calls[c].pc = "renderBase"
          THEN [@ EXCEPT !.pc = "renderTemplate", !.baseFiles = calls[c].files,
                         !.files = <<>>, !.i = 1]
          ELSE [@ EXCEPT !.pc = "done",
                         !.returned = inheritanceResult(calls[c].baseFiles, calls[c].files)]]
    /\ UNCHANGED <<chainCall, walk, iconCall, io, create, treeVars, callVars, partialCall,
                   packageCall, renderVars, registryVars>>

\* get(id)
GetTemplate(id) ==
    /\ loaded
    /\ registryCall' = [called |-> TRUE, method |-> "get", id |-> id,
                        result |-> IF has(templates, id) THEN Some(get(templates, id))
                                   ELSE NoTemplate]
    /\ UNCHANGED <<moreVars, treeVars, callVars, partialCall, packageCall, renderVars,
                   disk, templates, loaded>>

\* list()
List ==
    /\ loaded
    /\ registryCall' = [called |-> TRUE, method |-> "list", id |-> "",
                        result |-> [defined |-> TRUE,
                                    list |-> [i \in 1..Len(templates) |-> templates[i].template]]]
    /\ UNCHANGED <<moreVars, treeVars, callVars, partialCall, packageCall, renderVars,
                   disk, templates, loaded>>

\* the template.json files of this section
ConcurrentBodies ==
    {body \in MetadataBodies : body.name \in {"M1", "M3"}}

ConcurrentIds == {"vanilla"}

NextConcurrent ==
    \/ \E dir \in {"base", "vanilla"}, body \in ConcurrentBodies :
          /\ (dir = "base") = (body.name = "M1")
          /\ WriteTemplateJson(dir, body)
    \/ NewTemplateRegistry
    \/ \E c \in Calls, kind \in {"render", "renderWithInheritance"},
          tp \in {"/t1", "/t2"}, bp \in {"undefined", "/base"}, ctx \in Contexts :
             CallStarts(c, kind, tp, bp, ctx)
    \/ \E c \in Calls : CallStats(c)
    \/ \E c \in Calls : CallReadsFile(c)
    \/ \E c \in Calls : CallRenderReturns(c)
    \/ \E id \in ConcurrentIds : GetWithBase(id)
    \/ \E id \in ConcurrentIds : Has(id)
    \/ \E id \in ConcurrentIds : GetTemplate(id)
    \/ List

SpecConcurrent == Init /\ [][NextConcurrent]_vars

(***************************************************************************)
(* createCommand(projectName, options).  The call is one record: its       *)
(* arguments, its locals (tempDir, templateFiles, manifestContent), the    *)
(* target and the temporary directory, and the error it threw.  The        *)
(* filesystem helpers and the manifest validator are collaborators: what   *)
(* they answer, and whether a write, the move or the removal is rejected,  *)
(* is chosen when the call is made.                                        *)
(***************************************************************************)
Letters ==
    {"a", "b", "c", "d", "e", "f", "g", "h", "i", "j", "k", "l", "m", "n", "o",
     "p", "q", "r", "s", "t", "u", "v", "w", "x", "y", "z",
     "A", "B", "C", "D", "E", "F", "G", "H", "I", "J", "K", "L", "M", "N", "O",
     "P", "Q", "R", "S", "T", "U", "V", "W", "X", "Y", "Z"}
Digits == {"0", "1", "2", "3", "4", "5", "6", "7", "8", "9"}

\* /^[a-zA-Z0-9_-]+$/.test(name)
validateProjectName(name) ==
    /\ Len(name) >= 1
    /\ \A i \in 1..Len(name) : name[i] \in Letters \cup Digits \cup {"_", "-"}

\* steps 1, 3 and 4 with the test of the target directory left out
checkPreconditionsNoTarget(name, targetExists, registry, id) ==
    IF ~validateProjectName(name) THEN "ValidationError"
    ELSE IF ~getWithBase(registry, id).defined THEN "ValidationError"
    ELSE "ok"

\* steps 1, 3 and 4: the error thrown, or ok
checkPreconditions(name, targetExists, registry, id) ==
    IF ~validateProjectName(name) THEN "ValidationError"
    ELSE IF targetExists THEN "FileSystemError"
    ELSE IF ~getWithBase(registry, id).defined THEN "ValidationError"
    ELSE "ok"

kVersion == <<"v", "e", "r", "s", "i", "o", "n">>
kDescription == <<"d", "e", "s", "c", "r", "i", "p", "t", "i", "o", "n">>

\* step 6
createContext(projectName) ==
    (kProjectName :> projectName)
    @@ (kVersion :> <<"1", ".", "0", ".", "0">>)
    @@ (kDescription :> projectName \o <<" ", "-", " ", "C", "h", "r", "o", "m", "e", " ", "E", "x", "t", "e", "n", "s", "i", "o", "n">>)

dotTemplate == <<".", "t", "e", "m", "p", "l", "a", "t", "e">>
manifestJson == <<"m", "a", "n", "i", "f", "e", "s", "t", ".", "j", "s", "o", "n">>
manifestTemplateJson == <<"m", "a", "n", "i", "f", "e", "s", "t", ".", "t", "e", "m", "p", "l", "a", "t", "e", ".", "j", "s", "o", "n">>

\* file.path.replace(/\.template/, ''): the first occurrence is removed
removeTemplate(path) ==
    LET i == IndexOf(path, dotTemplate, 1)
    IN  IF i = 0 THEN path
        ELSE SubSeq(path, 1, i - 1) \o SubSeq(path, i + Len(dotTemplate), Len(path))

\* fs.writeFile(path.join(tempDir, targetPath), content): the file is
\* created, or its content replaced
writeFile(files, path, content) ==
    IF \E i \in 1..Len(files) : files[i].path = path
    THEN [i \in 1..Len(files) |->
             IF files[i].path = path THEN RawFile(path, content) ELSE files[i]]
    ELSE Append(files, RawFile(path, content))

\* the templates directory createCommand finds: base, vanilla extending
\* base, react extending an id that is not registered, and vue
CreateDisk ==
    LET body(name) == CHOOSE b \in MetadataBodies : b.name = name
    IN  ("base" :> ([id |-> "base"] @@ body("M1")))
        @@ ("vanilla" :> ([id |-> "vanilla"] @@ body("M3")))
        @@ ("react" :> ([id |-> "react"] @@ body("M6")))
        @@ ("vue" :> ([id |-> "vue"] @@ body("M4")))

textEmptyObject == <<"{", "}">>

\* the files of the base template
CreateBaseTree ==
    <<RawFile(PackageJson, textBasePackage), RawFile(pathAPartialMd, <<"X">>)>>

\* the files a template may hold
CreateTemplateTrees ==
    { <<RawFile(manifestJson, textEmptyObject),
        RawFile(pathAMd, <<"W", "=">> \o tokenProjectName)>>,
      <<RawFile(manifestTemplateJson, textEmptyObject),
        RawFile(manifestJson, textMalformed)>>,
      <<RawFile(pathAMd, <<"Y">>)>>,
      <<RawFile(manifestJson, textMalformed)>>,
      <<RawFile(PackageJsonTemplate, textTemplatePackage),
        RawFile(manifestJson, textEmptyObject)>> }

ProjectNames == { <<"a">>, <<"a", "_", "1", "-", "B">>, <<>>, <<"a", " ">>, <<"a", "/", "b">> }

\* the step at which the filesystem rejects an operation, if any
Faults == {"none", "write", "move"}

CreateCommand(name, id, targetExists, tree, schemaValid, filesValid, fault, removeRejects) ==
    /\ create.pc = "idle"
    /\ create' = [pc |-> "checks", projectName |-> name, template |-> id,
                  targetBefore |-> targetExists,
                  target |-> IF targetExists THEN "before" ELSE "absent",
                  tree |-> tree, schemaValid |-> schemaValid, filesValid |-> filesValid,
                  fault |-> fault, removeRejects |-> removeRejects,
                  registry |-> loadTemplates(CreateDisk),
                  tempDir |-> FALSE, tempEver |-> FALSE, tempExists |-> FALSE,
                  tempFiles |-> <<>>, templateFiles |-> <<>>, i |-> 1,
                  manifestContent |-> <<>>, error |-> "none", warned |-> FALSE]
    /\ UNCHANGED <<chainCall, walk, iconCall, io, calls, treeVars, callVars, partialCall,
                   packageCall, renderVars, registryVars>>

\* steps 1-4: the name, the target directory, the template
CreateChecks ==
    /\ create.pc = "checks"
    /\ LET e == checkPreconditions(create.projectName, create.target # "absent",
                                   create.registry, create.template)
       IN  create' = IF e = "ok" THEN [create EXCEPT !.pc = "createTempDir"]
                     ELSE [create EXCEPT !.pc = "catch", !.error = e]
    /\ UNCHANGED <<chainCall, walk, iconCall, io, calls, treeVars, callVars, partialCall,
                   packageCall, renderVars, registryVars>>

\* step 5: tempDir = await fs.createTempDir()
CreateTempDir ==
    /\ create.pc = "createTempDir"
    /\ create' = [create EXCEPT !.pc = "render", !.tempDir = TRUE, !.tempEver = TRUE,
                                !.tempExists = TRUE]
    /\ UNCHANGED <<chainCall, walk, iconCall, io, calls, treeVars, callVars, partialCall,
                   packageCall, renderVars, registryVars>>

\* steps 6-7: the context, the base path, renderWithInheritance
CreateRender ==
    /\ create.pc = "render"
    /\ LET template == getWithBase(create.registry, create.template).template
           ctx == createContext(create.projectName)
           withBase == ~NoExtends(template) /\ has(create.registry, template.extends[1])
           rendered == render(create.tree, ctx)
       IN  create' = [create EXCEPT
                        !.pc = "write",
                        !.templateFiles =
                            IF withBase
                            THEN inheritanceResult(render(CreateBaseTree, ctx), rendered)
                            ELSE rendered]
    /\ UNCHANGED <<chainCall, walk, iconCall, io, calls, treeVars, callVars, partialCall,
                   packageCall, renderVars, registryVars>>

\* step 8, one file: the write and the capture of the manifest
CreateWriteFile ==
    /\ create.pc = "write"
    /\ create.i <= Len(create.templateFiles)
    /\ LET file == create.templateFiles[create.i]
           targetPath == removeTemplate(file.path)
       IN  create' =
             IF create.fault = "write"
             THEN [create EXCEPT !.pc = "catch", !.error = "Error"]
             ELSE [create EXCEPT
                     !.tempFiles = writeFile(@, targetPath, file.content),
                     !.manifestContent =
                         IF targetPath = manifestJson \/ file.path = manifestTemplateJson
                         THEN file.content ELSE @,
                     !.i = @ + 1]
    /\ UNCHANGED <<chainCall, walk, iconCall, io, calls, treeVars, callVars, partialCall,
                   packageCall, renderVars, registryVars>>

\* steps 9-10: the manifest is there, parses, and passes both validations
CreateValidate ==
    /\ create.pc = "write"
    /\ create.i > Len(create.templateFiles)
    /\ create' =
          IF create.manifestContent = <<>>
          THEN [create EXCEPT !.pc = "catch", !.error = "ValidationError"]
          ELSE IF JSONparse(create.manifestContent).t = "SyntaxError"
          THEN [create EXCEPT !.pc = "catch", !.error = "SyntaxError"]
          ELSE IF ~create.schemaValid \/ ~create.filesValid
          THEN [create EXCEPT !.pc = "catch", !.error = "ValidationError"]
          ELSE [create EXCEPT !.pc = "move"]
    /\ UNCHANGED <<chainCall, walk, iconCall, io, calls, treeVars, callVars, partialCall,
                   packageCall, renderVars, registryVars>>

\* step 11: await fs.moveAtomic(tempDir, targetDir); tempDir = null.  The
\* move is all or nothing: rejected, it leaves both directories as they are.
CreateMove ==
    /\ create.pc = "move"
    /\ create' =
          IF create.fault = "move"
          THEN [create EXCEPT !.pc = "catch", !.error = "Error"]
          ELSE [create EXCEPT !.pc = "done", !.target = "project", !.tempExists = FALSE,
                              !.tempDir = FALSE]
    /\ UNCHANGED <<chainCall, walk, iconCall, io, calls, treeVars, callVars, partialCall,
                   packageCall, renderVars, registryVars>>

\* the catch: fs.remove(tempDir) when tempDir is set, a rejected removal
\* is logged as a warning, and the error is thrown again
CreateCatch ==
    /\ create.pc = "catch"
    /\ create' =
          IF create.tempDir
          THEN IF create.removeRejects
               THEN [create EXCEPT !.pc = "thrown", !.warned = TRUE]
               ELSE [create EXCEPT !.pc = "thrown", !.tempExists = FALSE]
          ELSE [create EXCEPT !.pc = "thrown"]
    /\ UNCHANGED <<chainCall, walk, iconCall, io, calls, treeVars, callVars, partialCall,
                   packageCall, renderVars, registryVars>>

NextCreate ==
    \/ \E name \in ProjectNames, id \in TemplateIds, targetExists \in BOOLEAN,
          tree \in CreateTemplateTrees, schemaValid \in BOOLEAN, filesValid \in BOOLEAN,
          fault \in Faults, removeRejects \in BOOLEAN :
             CreateCommand(name, id, targetExists, tree, schemaValid, filesValid,
                           fault, removeRejects)
    \/ CreateChecks
    \/ CreateTempDir
    \/ CreateRender
    \/ CreateWriteFile
    \/ CreateValidate
    \/ CreateMove
    \/ CreateCatch

SpecCreate == Init /\ [][NextCreate]_vars

(***************************************************************************)
(* Properties.                                                             *)
(***************************************************************************)
HasMarker(path) == includes(path, PartialMarker)

\* the path with the marker removed: the target path of a partial
WithoutMarker(path) ==
    LET i == IndexOf(path, PartialMarker, 1)
    IN  IF i = 0 THEN path
        ELSE SubSeq(path, 1, i - 1) \o <<".">>
             \o SubSeq(path, i + Len(PartialMarker), Len(path))

Indices(files, path) == {i \in 1..Len(files) : files[i].path = path}

\* the call returned and its base path exists
DoneWithBase == pc = "done" /\ basePath = "/base"

\* the list mergePartialFiles handed to the last loop of the call
MergedFiles == mergePartialFiles(baseFiles, templateFiles)

\* C1: no entry returned by mergePartialFiles has a path that contains the
\* partial marker, whatever the two lists hold.
C1_NoLeakedPartials ==
    partialCall.called =>
        \A i \in 1..Len(partialCall.result) : ~HasMarker(partialCall.result[i].path)

\* C2 as claimed: no list renderWithInheritance returns, whatever its
\* basePath, has an entry whose path contains the partial marker.
C2_NoPartialForAnyBasePath ==
    pc = "done" => \A i \in 1..Len(returned) : ~HasMarker(returned[i].path)

\* C2 as amended: a list renderWithInheritance returns for a base path that
\* exists has no entry whose path contains the partial marker.
C2_NoPartialWithBase ==
    DoneWithBase => \A i \in 1..Len(returned) : ~HasMarker(returned[i].path)

\* a call with a base met a marked path after the partial merge and dropped it
C2_Witness ==
    /\ DoneWithBase
    /\ \E i \in 1..Len(MergedFiles) : HasMarker(MergedFiles[i].path)
    /\ returned # <<>>

\* C3 as claimed: no list renderWithInheritance returns, whatever its
\* basePath, has two entries with the same path.
C3_NoDuplicateForAnyBasePath ==
    pc = "done" => Cardinality(Paths(returned)) = Len(returned)

\* C3 as amended: a list renderWithInheritance returns for a base path that
\* exists has at most one entry per path.
C3_NoDuplicateWithBase ==
    DoneWithBase => Cardinality(Paths(returned)) = Len(returned)

\* a call with a base whose merged list held the same path twice
C3_Witness ==
    /\ DoneWithBase
    /\ Cardinality(Paths(MergedFiles)) < Len(MergedFiles)
    /\ \E i \in 1..Len(MergedFiles) : Indices(returned, MergedFiles[i].path) # {}

\* the contents that derive from the template at path p: the template's
\* file (after the package.json step) and its merges with the base partials
\* that target p
TemplateDerived(p) ==
    {templateFiles[t].content : t \in Indices(templateFiles, p)}
    \cup {mergedContent(p, templateFiles[t], baseFiles[b]) :
            t \in Indices(templateFiles, p),
            b \in {j \in 1..Len(baseFiles) :
                     HasMarker(baseFiles[j].path) /\ WithoutMarker(baseFiles[j].path) = p}}

\* C4: with a base, at every path where the template has a file the
\* returned entry carries template-derived content, never the raw content
\* of a base file, in whatever order the base files were enumerated.
C4_TemplateOverridesBase ==
    DoneWithBase =>
        \A i \in 1..Len(returned) :
            Indices(templateFiles, returned[i].path) # {}
                => returned[i].content \in TemplateDerived(returned[i].path)

\* C5: with a base, every base partial is accounted for: the returned list
\* has an entry at the partial's target path whose content includes the
\* partial's content.
C5_PartialsAccountedFor ==
    DoneWithBase =>
        \A b \in 1..Len(baseFiles) :
            HasMarker(baseFiles[b].path) =>
                \E i \in Indices(returned, WithoutMarker(baseFiles[b].path)) :
                    includes(returned[i].content, baseFiles[b].content)

\* equality of two JSON values, property order included
RECURSIVE JEq(_, _)
JEq(a, b) ==
    /\ a.t = b.t
    /\ Len(a.v) = Len(b.v)
    /\ IF a.t = "obj"
       THEN \A i \in 1..Len(a.v) : a.v[i].k = b.v[i].k /\ JEq(a.v[i].v, b.v[i].v)
       ELSE a.v = b.v

\* what render gave for the template tree, before the package.json step
RenderedTemplate == render(templateTree, context)
BaseDescriptor == findPackageFile(baseFiles)
TemplateDescriptor == findPackageFile(RenderedTemplate)
BothDescriptors == DoneWithBase /\ BaseDescriptor # 0 /\ TemplateDescriptor # 0
BaseParsed == JSONparse(baseFiles[BaseDescriptor].content)
TemplateParsed == JSONparse(RenderedTemplate[TemplateDescriptor].content)

\* C6: when both trees hold a package descriptor and both parse, the
\* returned list holds a single descriptor entry, at the template's
\* descriptor path, and it parses to mergePackageJson(base, template).
C6_SingleMergedDescriptor ==
    (BothDescriptors /\ BaseParsed.t = "obj" /\ TemplateParsed.t = "obj") =>
        /\ Cardinality({i \in 1..Len(returned) : isPackageFile(returned[i])}) = 1
        /\ \A i \in 1..Len(returned) :
             isPackageFile(returned[i]) =>
                /\ returned[i].path = RenderedTemplate[TemplateDescriptor].path
                /\ JEq(JSONparse(returned[i].content),
                       mergePackageJson(BaseParsed, TemplateParsed))

\* the returned list holds the template's descriptor as render gave it
TemplateDescriptorKept ==
    \E i \in 1..Len(returned) :
        /\ Indices(returned, RenderedTemplate[TemplateDescriptor].path) = {i}
        /\ returned[i].content = RenderedTemplate[TemplateDescriptor].content

OneSideMalformed ==
    BothDescriptors /\ (BaseParsed.t = "SyntaxError" \/ TemplateParsed.t = "SyntaxError")

\* C7 as claimed: when the descriptor of either side does not parse, the
\* call returns and the entry at the template's descriptor path has the
\* template's own rendered content.
C7_MalformedKeepsTemplate == OneSideMalformed => TemplateDescriptorKept

\* nothing else lands on the template's descriptor path: no base partial
\* targets it and no other template file is rendered to it
DescriptorPathUncontended ==
    /\ \A b \in 1..Len(baseFiles) :
          HasMarker(baseFiles[b].path) =>
              WithoutMarker(baseFiles[b].path) # RenderedTemplate[TemplateDescriptor].path
    /\ Cardinality(Indices(RenderedTemplate, RenderedTemplate[TemplateDescriptor].path)) = 1

\* C7 as amended: when the descriptor of either side does not parse and
\* nothing else lands on the template's descriptor path, the call returns
\* and the entry at that path has the template's own rendered content.
C7_MalformedKeepsTemplateUncontended ==
    (OneSideMalformed /\ DescriptorPathUncontended) => TemplateDescriptorKept

\* a malformed base descriptor met a template descriptor that parses, at
\* the same path
C7_Witness ==
    /\ OneSideMalformed
    /\ DescriptorPathUncontended
    /\ BaseParsed.t = "SyntaxError"
    /\ TemplateParsed.t = "obj"
    /\ baseFiles[BaseDescriptor].path = RenderedTemplate[TemplateDescriptor].path
    /\ TemplateDescriptorKept

\* C8: for a basePath that is undefined or does not exist,
\* renderWithInheritance returns the list render returns for the template
\* tree: same entries, same order, same content.
C8_FallbackIsRender ==
    (pc = "done" /\ basePath \in {"undefined", "/nonexistent"}) =>
        returned = render(templateTree, context)

\* a call without a usable base returned a list that the merge with a
\* base would not return as it is
C8_Witness ==
    /\ pc = "done"
    /\ basePath = "/nonexistent"
    /\ \E i \in 1..Len(returned) : HasMarker(returned[i].path)
    /\ Len(returned) = Len(templateTree)

\* the keys of the map a package object holds at key, none when it holds
\* no map there
MapKeys(package, key) ==
    IF Get(package, key).t = "obj" THEN Keys(Get(package, key).v) ELSE {}

\* C9: the result of mergePackageJson holds scripts, dependencies and
\* devDependencies as maps, each the base map overridden by the specific
\* map: its keys are the keys of both, a shared key has the specific value.
C9_MapsMerged ==
    packageCall.called =>
        \A key \in {kScripts, kDependencies, kDevDependencies} :
            LET m == Get(packageCall.result, key)
                b == packageCall.basePackage
                t == packageCall.templatePackage
            IN  /\ m.t = "obj"
                /\ Len(m.v) = Cardinality(Keys(m.v))
                /\ Keys(m.v) = MapKeys(b, key) \cup MapKeys(t, key)
                /\ \A k \in Keys(m.v) :
                      JEq(Get(m, k),
                          IF k \in MapKeys(t, key) THEN Get(Get(t, key), k)
                          ELSE Get(Get(b, key), k))

\* a merge with a shared script, a base-only and a specific-only
\* dependency, and devDependencies absent on both sides
C9_Witness ==
    /\ packageCall.called
    /\ Get(Get(packageCall.basePackage, kScripts), kDev) = JStr(<<"a">>)
    /\ Get(Get(packageCall.templatePackage, kScripts), kDev) = JStr(<<"b">>)
    /\ MapKeys(packageCall.basePackage, kDependencies) = {<<"v">>, <<"r">>}
    /\ MapKeys(packageCall.templatePackage, kDependencies) = {<<"r">>}
    /\ Get(packageCall.basePackage, kDevDependencies).t = "undefined"
    /\ Get(packageCall.templatePackage, kDevDependencies).t = "undefined"
    /\ Get(packageCall.result, kDevDependencies) = JObj(<<>>)

\* base file b of the call is a partial whose target is not a README and
\* is in the lookup index when b is reached: the template list has a file
\* at the target and no earlier base partial took it
MergesIntoTemplate(b) ==
    LET bf == partialCall.baseFiles
        target == WithoutMarker(bf[b].path)
    IN  /\ HasMarker(bf[b].path)
        /\ ~includes(target, README)
        /\ Indices(partialCall.templateFiles, target) # {}
        /\ \A j \in 1..(b - 1) :
              ~(HasMarker(bf[j].path) /\ WithoutMarker(bf[j].path) = target)

\* the file the lookup index holds at path: the last of the list
LastAt(files, path) == files[CHOOSE i \in Indices(files, path) :
                                \A j \in Indices(files, path) : j <= i]

LowerSeq == <<"a", "b", "c", "d", "e", "f", "g", "h", "i", "j", "k", "l", "m",
              "n", "o", "p", "q", "r", "s", "t", "u", "v", "w", "x", "y", "z">>
UpperSeq == <<"A", "B", "C", "D", "E", "F", "G", "H", "I", "J", "K", "L", "M",
              "N", "O", "P", "Q", "R", "S", "T", "U", "V", "W", "X", "Y", "Z">>

\* the characters of s with every lower-case letter made upper-case
UpperCased(s) ==
    [i \in 1..Len(s) |->
        IF s[i] \in Lower
        THEN UpperSeq[CHOOSE k \in 1..26 : LowerSeq[k] = s[i]]
        ELSE s[i]]

\* the path names a README, in whatever letter case
NamesReadme(path) == includes(UpperCased(path), README)

\* base file b of the call is a partial whose target is in the lookup index
\* when b is reached
FindsTemplate(b) ==
    LET bf == partialCall.baseFiles
        target == WithoutMarker(bf[b].path)
    IN  /\ HasMarker(bf[b].path)
        /\ Indices(partialCall.templateFiles, target) # {}
        /\ \A j \in 1..(b - 1) :
              ~(HasMarker(bf[j].path) /\ WithoutMarker(bf[j].path) = target)

\* content with text put in the place of the first occurrence of the
\* placeholder
SubstitutedAtPlaceholder(content, text) ==
    LET i == IndexOf(content, placeholder, 1)
    IN  SubSeq(content, 1, i - 1) \o text
        \o SubSeq(content, i + Len(placeholder), Len(content))

\* what C11 says the merged content of a README target is
ReadmeContent(tf, baseFile) ==
    IF includes(tf.content, placeholder)
    THEN SubstitutedAtPlaceholder(tf.content, baseFile.content)
    ELSE tf.content \o <<"\n">> \o baseFile.content

\* C11: when the target of a merged base partial contains README in any
\* letter case, the merged content is the template content with the
\* partial's content in the place of the placeholder if the template
\* content has the placeholder, and templateContent + newline + baseContent
\* if it has not.
C11_ReadmeMerge ==
    partialCall.called =>
        \A b \in 1..Len(partialCall.baseFiles) :
            LET bf == partialCall.baseFiles
                target == WithoutMarker(bf[b].path)
            IN  (FindsTemplate(b) /\ NamesReadme(target)) =>
                    partialCall.result[b].content =
                        ReadmeContent(LastAt(partialCall.templateFiles, target), bf[b])

\* the entry a base file gives when the template has nothing for it:
\* passed through, or promoted to its target path
Promoted(baseFile) ==
    IF HasMarker(baseFile.path)
    THEN File(WithoutMarker(baseFile.path), baseFile.content, baseFile.encoding)
    ELSE baseFile

\* the target paths of the partials of a list of base files
Targets(files) ==
    {WithoutMarker(files[i].path) : i \in {j \in 1..Len(files) : HasMarker(files[j].path)}}

\* the template files no partial of baseFiles aims at, in their order
Leftover(bf, tf) ==
    SelectSeq(tf, LAMBDA f : f.path \notin Targets(bf))

\* the order of the result: an entry per base file, then the leftover
\* template files
OrderedResult ==
    LET bf == partialCall.baseFiles
        tf == partialCall.templateFiles
        r == partialCall.result
    IN  /\ Len(r) = Len(bf) + Len(Leftover(bf, tf))
        /\ \A i \in 1..Len(bf) :
              /\ r[i].path = WithoutMarker(bf[i].path)
              /\ ~HasMarker(bf[i].path) => r[i] = bf[i]
        /\ SubSeq(r, Len(bf) + 1, Len(r)) = Leftover(bf, tf)
        /\ bf = <<>> => r = tf
        /\ tf = <<>> => r = [i \in 1..Len(bf) |-> Promoted(bf[i])]

DistinctPaths(files) ==
    \A i, j \in 1..Len(files) : files[i].path = files[j].path => i = j

\* C12 as claimed: the list mergePartialFiles returns is one entry per base
\* file in base-file order, then every template file that no partial
\* consumed, in template-file order; with no base files it is the template
\* list, with no template files it is the base list with partials promoted.
C12_ResultOrder == partialCall.called => OrderedResult

\* C12 as amended: the same, for a template list that has no two files at
\* one path.
C12_ResultOrderDistinct ==
    (partialCall.called /\ DistinctPaths(partialCall.templateFiles)) => OrderedResult

\* a merged partial and a passed-through base file, then the one template
\* file that is left over
C12_Witness ==
    /\ partialCall.called
    /\ DistinctPaths(partialCall.templateFiles)
    /\ Len(partialCall.baseFiles) = 2
    /\ Len(partialCall.templateFiles) = 2
    /\ HasMarker(partialCall.baseFiles[1].path)
    /\ ~HasMarker(partialCall.baseFiles[2].path)
    /\ Len(partialCall.result) = 3
    /\ partialCall.result[3] \in {partialCall.templateFiles[1], partialCall.templateFiles[2]}

(***************************************************************************)
(* renderFile.                                                             *)
(***************************************************************************)
RECURSIVE Occurrences(_, _, _)
\* the number of places from i on where t occurs in s
Occurrences(s, t, i) ==
    IF i + Len(t) - 1 > Len(s) THEN 0
    ELSE (IF StartsWithAt(s, i, t) THEN 1 ELSE 0) + Occurrences(s, t, i + 1)

\* the names a token of the model's contents may have
TokenNames == {kA, kK, kConstructor}

\* C13: a token {{name}} whose name is not a key of the context is in the
\* output of renderFile as it was in the content: as many times, neither
\* replaced nor deleted.
C13_UnknownTokensKept ==
    renderCall.called =>
        \A name \in TokenNames \ DOMAIN renderCall.context :
            Occurrences(renderCall.result, Token(name), 1)
                >= Occurrences(renderCall.content, Token(name), 1)

\* the second call was made with the context of the first
RenderedTwice ==
    /\ renderCall.called
    /\ rerenderCall.called
    /\ rerenderCall.context = renderCall.context

\* C14: for a context lacking key k and a content containing {{k}},
\* rendering the output of renderFile again with the same context gives
\* that output again, and {{k}} is still in it.
C14_RenderTwiceSame ==
    RenderedTwice =>
        \A k \in TokenNames \ DOMAIN renderCall.context :
            includes(renderCall.content, Token(k)) =>
                /\ rerenderCall.result = renderCall.result
                /\ includes(rerenderCall.result, Token(k))

\* C15: rendering first with a context and then with a fuller context that
\* extends it gives what one rendering with the fuller context gives.
C15_TwoPassesAsOne ==
    (renderCall.called /\ rerenderCall.called) =>
        rerenderCall.result = renderFile(renderCall.content, rerenderCall.context)

\* where the nearest {{/if}} after the {{#if name}} at i stands, 0 if none
BlockEnd(content, i, name) == IndexOf(content, CloseIf, i + Len(IfOpen(name)))

\* the content has its first conditional block at i: {{#if name}} stands at
\* i with no {{#if before it, and a {{/if}} follows
FirstBlockAt(content, i, name) ==
    /\ StartsWithAt(content, i, IfOpen(name))
    /\ ~includes(SubSeq(content, 1, i - 1 + Len(OpenIf) - 1), OpenIf)
    /\ BlockEnd(content, i, name) # 0

\* context[name] is a defined, non-empty string
DefinedNonEmpty(ctx, name) == name \in DOMAIN ctx /\ ctx[name] # <<>>

\* C16: the first block {{#if name}}block{{/if}} of a content is replaced by
\* block when context[name] is a defined, non-empty string and by nothing
\* otherwise, the rest of the content is treated likewise, and the tokens
\* of what is left, those of a kept block included, are substituted after.
C16_ConditionalsFirst ==
    renderCall.called =>
        \A i \in 1..Len(renderCall.content), name \in TokenNames :
            FirstBlockAt(renderCall.content, i, name) =>
                LET c == renderCall.content
                    ctx == renderCall.context
                    j == BlockEnd(c, i, name)
                    block == SubSeq(c, i + Len(IfOpen(name)), j - 1)
                    rest == SubSeq(c, j + Len(CloseIf), Len(c))
                IN  renderCall.result =
                        processVariables(
                            SubSeq(c, 1, i - 1)
                            \o (IF DefinedNonEmpty(ctx, name) THEN block ELSE <<>>)
                            \o processConditionals(rest, ctx),
                            ctx)

(***************************************************************************)
(* TemplateRegistry.                                                       *)
(***************************************************************************)
\* getWithBase(id) was the last call
CalledGetWithBase == registryCall.called /\ registryCall.method = "getWithBase"

\* the descriptor stored for the id of the last call
Specific == get(templates, registryCall.id)

\* the id of the last call is registered, with an extends that names a
\* registered descriptor
ExtendsRegistered ==
    /\ CalledGetWithBase
    /\ has(templates, registryCall.id)
    /\ ~NoExtends(Specific)
    /\ has(templates, Specific.extends[1])

\* the descriptor stored for the base of the id of the last call
Base == get(templates, Specific.extends[1])

ScriptKeys(scripts) == IF scripts.t = "obj" THEN Keys(scripts.v) ELSE {}

Elements(seq) == {seq[i] : i \in 1..Len(seq)}

\* C17: for a descriptor whose extends names a registered base, getWithBase
\* returns a descriptor whose dependencies are the base's followed by the
\* specific's, whose devDependencies likewise, whose scripts are the base's
\* overridden by the specific's, and whose other fields are the specific's.
C17_MergedMetadata ==
    ExtendsRegistered =>
        LET r == registryCall.result
        IN  /\ r.defined
            /\ r.template.dependencies = Base.dependencies \o Specific.dependencies
            /\ r.template.devDependencies
                  = Base.devDependencies \o Specific.devDependencies
            /\ r.template.scripts.t = "obj"
            /\ ScriptKeys(r.template.scripts)
                  = ScriptKeys(Base.scripts) \cup ScriptKeys(Specific.scripts)
            /\ \A key \in ScriptKeys(r.template.scripts) :
                  JEq(Get(r.template.scripts, key),
                      IF key \in ScriptKeys(Specific.scripts)
                      THEN Get(Specific.scripts, key)
                      ELSE Get(Base.scripts, key))
            /\ r.template.id = Specific.id
            /\ r.template.name = Specific.name
            /\ r.template.description = Specific.description
            /\ r.template.files = Specific.files
            /\ r.template.extends = Specific.extends

\* vanilla extends base, both have a dev script and the dependency p
C17_Witness ==
    /\ ExtendsRegistered
    /\ registryCall.id = "vanilla"
    /\ Specific.extends = <<"base">>
    /\ registryCall.result.template.dependencies = <<"p", "p", "q">>
    /\ registryCall.result.template.devDependencies = <<"w", "v">>
    /\ Get(Base.scripts, kDev) = JStr(<<"a">>)
    /\ Get(registryCall.result.template.scripts, kDev) = JStr(<<"b">>)

\* C18: getWithBase returns undefined for an id that is not registered, the
\* stored descriptor for a descriptor without extends, and the stored
\* descriptor for a descriptor whose extends names no registered id.
C18_FailsSoft ==
    CalledGetWithBase =>
        LET r == registryCall.result
        IN  IF ~has(templates, registryCall.id) THEN ~r.defined
            ELSE (NoExtends(Specific) \/ ~has(templates, Specific.extends[1]))
                    => (r.defined /\ r.template = Specific)

\* a registered descriptor whose extends names an unregistered id
C18_Witness ==
    /\ CalledGetWithBase
    /\ has(templates, registryCall.id)
    /\ Specific.extends = <<"nope">>
    /\ registryCall.result.defined
    /\ registryCall.result.template = Specific

\* the id of the last call extends a registered b1 that extends a
\* registered b2
ChainOfTwo ==
    /\ ExtendsRegistered
    /\ ~NoExtends(Base)
    /\ has(templates, Base.extends[1])

\* the descriptor stored for b2
BaseOfBase == get(templates, Base.extends[1])

\* C19 as claimed: for id extends b1 and b1 extends b2, all registered, the
\* descriptor getWithBase returns for id has the scripts, dependencies and
\* devDependencies of b2 as well as those of b1 and of id.
C19_WholeChain ==
    ChainOfTwo =>
        LET t == registryCall.result.template
        IN  \A d \in {BaseOfBase, Base, Specific} :
                /\ Elements(d.dependencies) \subseteq Elements(t.dependencies)
                /\ Elements(d.devDependencies) \subseteq Elements(t.devDependencies)
                /\ ScriptKeys(d.scripts) \subseteq ScriptKeys(t.scripts)

\* C19 as amended: getWithBase follows the extends pointer one hop; for id
\* extends b1 and b1 extends b2, all registered, the descriptor returned for
\* id has the scripts, dependencies and devDependencies of b1 as stored and
\* of id, and nothing of b2 is added.
C19_SingleHop ==
    ChainOfTwo =>
        LET t == registryCall.result.template
        IN  /\ t.dependencies = Base.dependencies \o Specific.dependencies
            /\ t.devDependencies = Base.devDependencies \o Specific.devDependencies
            /\ ScriptKeys(t.scripts)
                  = ScriptKeys(Base.scripts) \cup ScriptKeys(Specific.scripts)

\* react extends vanilla, vanilla extends base, and a devDependency of base
\* is not in what getWithBase returns for react
C19_Witness ==
    /\ ChainOfTwo
    /\ registryCall.id = "react"
    /\ Specific.extends = <<"vanilla">>
    /\ Base.extends = <<"base">>
    /\ \E d \in Elements(BaseOfBase.devDependencies) :
          d \notin Elements(registryCall.result.template.devDependencies)

\* C20: once the registry is constructed with the template.json of base,
\* vanilla, react and vue on disk, has('vue') is true and getWithBase('vue')
\* is defined.
C20_VueAvailable ==
    (loaded /\ TemplateDirs \subseteq DOMAIN disk) =>
        /\ has(templates, "vue")
        /\ getWithBase(templates, "vue").defined

(***************************************************************************)
(* mergePartialFiles: the placeholder after a README merge.                *)
(***************************************************************************)
\* C26: when a base partial is merged into a README target whose content
\* contains the placeholder, the merged content does not contain the
\* placeholder.
C26_PlaceholderGone ==
    partialCall.called =>
        \A b \in 1..Len(partialCall.baseFiles) :
            LET bf == partialCall.baseFiles
                target == WithoutMarker(bf[b].path)
            IN  (/\ FindsTemplate(b)
                 /\ includes(target, README)
                 /\ includes(LastAt(partialCall.templateFiles, target).content,
                             placeholder))
                    => ~includes(partialCall.result[b].content, placeholder)

(***************************************************************************)
(* renderWithInheritance with an empty base tree.                          *)
(***************************************************************************)
\* C27: with a base path that exists and a base tree that holds no file,
\* renderWithInheritance returns the list render returns for the template
\* tree: same entries, same order, same content.
C27_EmptyBaseIsRender ==
    (DoneWithBase /\ baseTree = <<>>) => returned = render(templateTree, context)

(***************************************************************************)
(* mergePackageJson over a chain of three package objects.                 *)
(***************************************************************************)
\* the same properties with the same values, whatever their order
RECURSIVE SameProperties(_, _)
SameProperties(x, y) ==
    /\ x.t = y.t
    /\ IF x.t = "obj"
       THEN /\ Keys(x.v) = Keys(y.v)
            /\ Len(x.v) = Len(y.v)
            /\ \A k \in Keys(x.v) : SameProperties(Get(x, k), Get(y, k))
       ELSE x.v = y.v

\* C28 as stated: mergePackageJson(mergePackageJson(a, b), c) and
\* mergePackageJson(a, mergePackageJson(b, c)) are the same object, the
\* order of its properties (the order JSON.stringify writes) included.
C28_Associative ==
    chainCall.called => JEq(chainCall.left, chainCall.right)

\* C28 amended: the two groupings give objects with the same properties and
\* the same values, the three maps included; the order of the top-level
\* properties can differ.
C28_AssociativeUpToOrder ==
    chainCall.called => SameProperties(chainCall.left, chainCall.right)

\* a chain where a has a dependency c does not have, b has no dependencies,
\* and the three scripts maps share a key
C28_Witness ==
    /\ chainCall.called
    /\ Keys(Get(chainCall.a, kDependencies).v) = {<<"v">>, <<"r">>}
    /\ Get(chainCall.b, kDependencies) = JUndefined
    /\ Keys(Get(chainCall.c, kDependencies).v) = {<<"r">>}
    /\ \A p \in {chainCall.a, chainCall.b, chainCall.c} : kDev \in Keys(Get(p, kScripts).v)
    /\ Get(chainCall.a, kScripts) # Get(chainCall.c, kScripts)
    /\ Keys(Get(chainCall.left, kDependencies).v) = {<<"v">>, <<"r">>}
    /\ Get(Get(chainCall.left, kDependencies), <<"r">>) = JStr(<<"1">>)

(***************************************************************************)
(* getWithBase on a registry whose extends pointers loop.                  *)
(***************************************************************************)
\* C30: every getWithBase call returns: whatever the registry holds and
\* whatever the id, the call reaches its return, with the value the
\* single-hop lookup gives, also when the extends pointers form a cycle or
\* a descriptor extends itself.
C30_Terminates ==
    (walk.pc = "get") ~>
        (walk.pc = "done" /\ walk.result = getWithBase(templates, walk.id))

\* a call that returned a descriptor for an id whose base extends the id
C30_Witness ==
    /\ walk.pc = "done"
    /\ has(templates, walk.id)
    /\ ~NoExtends(get(templates, walk.id))
    /\ get(templates, walk.id).extends[1] # walk.id
    /\ has(templates, get(templates, walk.id).extends[1])
    /\ get(templates, get(templates, walk.id).extends[1]).extends = <<walk.id>>
    /\ walk.result.defined

(***************************************************************************)
(* render and binary files.                                                *)
(***************************************************************************)
\* an icon: a file whose name ends in .png
isIcon(path) == Len(path) >= 4 /\ SubSeq(path, Len(path) - 3, Len(path)) = dotPng

\* C25: render emits every icon of the tree with the binary encoding tag
\* and with its bytes as they are on disk: no substitution, no conditional
\* processing.
C25_BinaryUntouched ==
    iconCall.called =>
        \A i \in 1..Len(iconCall.tree) :
            isIcon(iconCall.tree[i].path) =>
                /\ iconCall.result[i].encoding = "binary"
                /\ iconCall.result[i].content = iconCall.tree[i].bytes

(***************************************************************************)
(* I/O failures in render and renderWithInheritance.                       *)
(***************************************************************************)
Unreadable(tree) == ~tree.readable \/ \E i \in 1..Len(tree.files) : ~tree.files[i].readable

\* the call met a failure: the base location could not be examined, or a
\* tree the call read held a directory or file that could not be read
FailureMet ==
    \/ io.basePath # "undefined" /\ io.stat = "EACCES"
    \/ io.basePath # "undefined" /\ io.stat = "ok" /\ Unreadable(io.base)
    \/ Unreadable(io.template)

\* C23: a call that met an I/O failure fails, and the no-inheritance path
\* is taken only for a base path that is undefined or does not exist.
C23_FailuresPropagate ==
    io.pc = "done" =>
        /\ FailureMet => ~io.outcome.ok
        /\ io.via = "render" => (io.basePath = "undefined" \/ io.stat = "ENOENT")

(***************************************************************************)
(* Calls in flight together.                                               *)
(***************************************************************************)
\* what the call returns when no other call runs
Alone(call) ==
    IF call.kind = "render" \/ call.basePath # "/base"
    THEN render(DiskTree(call.templatePath), call.context)
    ELSE inheritanceResult(render(DiskTree(call.basePath), call.context),
                           render(DiskTree(call.templatePath), call.context))

\* C24: a call that has returned has returned the list it returns when run
\* alone, however its steps were interleaved with those of the other call,
\* and no step of a render call or of a registry method changes the
\* registry table.
C24_CallsIndependent ==
    /\ [](\A c \in Calls : calls[c].pc = "done" => calls[c].returned = Alone(calls[c]))
    /\ [][loaded => templates' = templates]_vars

\* two calls that ran interleaved, on the same tree with different
\* contexts, one of them with the base, have both returned, and a registry
\* method has been called on a table that holds a descriptor
C24_Witness ==
    /\ \A c \in Calls : calls[c].pc = "done" /\ calls[c].interleaved
    /\ calls["c1"].templatePath = calls["c2"].templatePath
    /\ calls["c1"].context # calls["c2"].context
    /\ calls["c1"].basePath = "/base"
    /\ calls["c2"].kind = "render"
    /\ calls["c1"].returned # calls["c2"].returned
    /\ registryCall.called
    /\ registryCall.method = "getWithBase"
    /\ templates # <<>>

(***************************************************************************)
(* createCommand.                                                          *)
(***************************************************************************)
\* C21: when createCommand has thrown, no directory is at the target path
\* unless one was there before the call, and the temporary directory
\* created for the run, if one was created, is gone.
C21_NoResidue ==
    create.pc = "thrown" =>
        /\ create.target # "absent" => create.targetBefore
        /\ create.tempEver => ~create.tempExists

\* a name that is empty or holds a character other than a letter, a
\* digit, a hyphen or an underscore
BadName(name) ==
    \/ name = <<>>
    \/ \E i \in 1..Len(name) : name[i] \notin Letters \cup Digits \cup {"-", "_"}

NothingCreated ==
    /\ ~create.tempEver
    /\ create.tempFiles = <<>>
    /\ create.target = IF create.targetBefore THEN "before" ELSE "absent"

\* C22: once its checks are done, a call with a bad name has thrown
\* ValidationError, a call with a good name and an existing target
\* directory has thrown FileSystemError, a call with a good name, a free
\* target and an id the registry does not hold has thrown ValidationError;
\* in the three cases no temporary directory was created, no file was
\* written and the target is as it was.
C22_RejectedBeforeCreating ==
    create.pc \notin {"idle", "checks", "catch"} =>
        LET threw(e) == create.pc = "thrown" /\ create.error = e /\ NothingCreated
        IN  /\ BadName(create.projectName) => threw("ValidationError")
            /\ (~BadName(create.projectName) /\ create.targetBefore)
                  => threw("FileSystemError")
            /\ (~BadName(create.projectName) /\ ~create.targetBefore
                  /\ ~has(create.registry, create.template))
                  => threw("ValidationError")

\* a call with a good name and a registered template, on an existing
\* target directory, has thrown
C22_Witness ==
    /\ create.pc = "thrown"
    /\ create.error = "FileSystemError"
    /\ create.projectName = <<"a", "_", "1", "-", "B">>
    /\ create.template = "vanilla"
    /\ create.targetBefore

\* the content of the file at a path of the temporary directory
TempContent(path) ==
    (CHOOSE f \in {create.tempFiles[k] : k \in 1..Len(create.tempFiles)} : f.path = path).content

\* C29: once the write step is over, every rendered file is in the
\* temporary directory at its own path: no two entries of the rendered list
\* were written to the same path.
C29_DistinctWrittenPaths ==
    (create.pc \in {"write", "move", "done"} /\ create.i > Len(create.templateFiles)) =>
        \A m, n \in 1..Len(create.templateFiles) :
            removeTemplate(create.templateFiles[m].path)
                = removeTemplate(create.templateFiles[n].path) => m = n

=============================================================================
